---- MODULE Spec2Model ----
(***************************************************************************)
(* The slug index of Grokipedia-v.-Wikipedia: the SQLite store, the build  *)
(* (SQLiteSlugIndex._build_index and scripts/build_slug_db.py), the query  *)
(* cascade (SQLiteSlugIndex.search and the narrower lookups) and the lazy  *)
(* initialization of a handle (_ensure_initialized).                       *)
(*                                                                         *)
(* Text is a sequence of one-character strings.  A store file is a record  *)
(*   tables : the slugs table exists         fts : slug_fts exists         *)
(*   rows   : the rows of slugs, in id order (row i has id i)              *)
(*   ftsdocs: the text the full-text index holds per id (set by 'rebuild') *)
(***************************************************************************)
EXTENDS Integers, Sequences, FiniteSets, TLC

\* ------------------------------------------------------------------ bounds
MaxSlugLen == 2      \* longest identifier line of a names.txt
MaxQueryLen == 3     \* longest query string
MaxNames == 2        \* most lines of one names.txt
MaxLimit == 2        \* largest limit passed to search
MaxCascade == 4      \* slugs in a store and largest limit where the cascade is followed
\* batch_size of the source is 10000; the model flushes after this many entries
batch_size == 1

\* -------------------------------------------------------------------- text
\* an optional value: None, or Some(v)
None == <<>>
Some(v) == <<v>>
SlugChars == {"a", "A", "_"}
LineChars == SlugChars \cup {" "}
QueryChars == {"a", "A", "_", " ", "%"}

Strs(A, n) == UNION {[1..k -> A] : k \in 0..n}

\* str.lower() on the characters of the model
LowerChar(c) == IF c = "A" THEN "a" ELSE c
lower(s) == [i \in DOMAIN s |-> LowerChar(s[i])]

\* str.replace('_', ' ')
replace_underscore(s) == [i \in DOMAIN s |-> IF s[i] = "_" THEN " " ELSE s[i]]

IsSpace(c) == c = " "

RECURSIVE lstrip(_)
lstrip(s) == IF s # <<>> /\ IsSpace(Head(s)) THEN lstrip(Tail(s)) ELSE s

RECURSIVE rstrip(_)
rstrip(s) ==
    IF s # <<>> /\ IsSpace(s[Len(s)]) THEN rstrip(SubSeq(s, 1, Len(s) - 1)) ELSE s

\* str.strip()
strip(s) == rstrip(lstrip(s))

\* str.split(): the maximal runs of non-whitespace characters
RECURSIVE split(_)
split(s) ==
    LET t == lstrip(s)
        n == IF \E i \in DOMAIN t : IsSpace(t[i])
             THEN (CHOOSE i \in DOMAIN t :
                       IsSpace(t[i]) /\ \A j \in 1..(i - 1) : ~IsSpace(t[j])) - 1
             ELSE Len(t)
    IN  IF t = <<>> THEN <<>>
        ELSE <<SubSeq(t, 1, n)>> \o split(SubSeq(t, n + 1, Len(t)))

\* SQLite's LIKE: '%' matches any run, '_' any one character, and letters
\* compare without regard to (ASCII) case.
RECURSIVE Like(_, _)
Like(p, s) ==
    IF p = <<>> THEN s = <<>>
    ELSE IF Head(p) = "%"
         THEN Like(Tail(p), s) \/ (s # <<>> /\ Like(p, Tail(s)))
    ELSE IF Head(p) = "_"
         THEN s # <<>> /\ Like(Tail(p), Tail(s))
    ELSE s # <<>> /\ LowerChar(Head(p)) = LowerChar(Head(s)) /\ Like(Tail(p), Tail(s))

IsPrefix(p, s) == Len(p) <= Len(s) /\ SubSeq(s, 1, Len(p)) = p

\* the first n elements of a sequence: Python's seq[:n] for n >= 0
Take(s, n) == SubSeq(s, 1, IF n < Len(s) THEN n ELSE Len(s))

\* ------------------------------------------------------------- store file
NoFile == [tables |-> FALSE, fts |-> FALSE, rows |-> <<>>, ftsdocs |-> <<>>]

\* the tuple the build appends to its batch for one identifier; lastmod is
\* None or Some(text)
Entry(slug, lastmod) ==
    [slug |-> slug, slug_lower |-> lower(slug),
     normalized |-> replace_underscore(lower(slug)), lastmod |-> lastmod]

\* INSERT OR REPLACE in its place: a duplicate takes the place of the row
RECURSIVE InsertOrReplace(_, _)
InsertOrReplace(rows, batch) ==
    IF batch = <<>> THEN rows
    ELSE InsertOrReplace(
             Append(SelectSeq(rows, LAMBDA r : r.slug # Head(batch).slug), Head(batch)),
             Tail(batch))

\* INSERT OR IGNORE INTO slugs ...: slug is UNIQUE, a duplicate is dropped
RECURSIVE InsertOrIgnore(_, _)
InsertOrIgnore(rows, batch) ==
    IF batch = <<>> THEN rows
    ELSE InsertOrIgnore(
             IF \E i \in DOMAIN rows : rows[i].slug = Head(batch).slug
             THEN rows ELSE Append(rows, Head(batch)),
             Tail(batch))
\* ------------------------------------------------------------------ query
\* the elements of S in ascending key order, ties in id (scan) order: what
\* SQLite's table scan followed by its stable sorter yields
RECURSIVE SortIds(_, _)
SortIds(S, key) ==
    IF S = {} THEN <<>>
    ELSE LET m == CHOOSE i \in S :
                      \A j \in S : key[i] < key[j] \/ (key[i] = key[j] /\ i <= j)
         IN  <<m>> \o SortIds(S \ {m}, key)

SlugsOf(rows, ids) == [k \in DOMAIN ids |-> rows[ids[k]].slug]

\* AddNew without the seen set
AddNewNoSeen(results, slugs) == results \o slugs

\* for row in cursor: if row['slug'] not in seen: results.append(...)
RECURSIVE AddNew(_, _)
AddNew(results, slugs) ==
    IF slugs = <<>> THEN results
    ELSE AddNew(IF \E i \in DOMAIN results : results[i] = Head(slugs)
                THEN results ELSE Append(results, Head(slugs)),
                Tail(slugs))

\* Strategy 1 comparing the slug column instead of slug_lower
Strategy1OnSlug(rows, query_lower) ==
    LET hit == {i \in DOMAIN rows : rows[i].slug = query_lower}
    IN  SlugsOf(rows, Take(SortIds(hit, [i \in hit |-> 0]), 1))

\* Strategy 1: SELECT slug FROM slugs WHERE slug_lower = ? LIMIT 1
\* (idx_slug_lower lists equal keys in id order)
Strategy1(rows, query_lower) ==
    LET hit == {i \in DOMAIN rows : rows[i].slug_lower = query_lower}
    IN  SlugsOf(rows, Take(SortIds(hit, [i \in hit |-> 0]), 1))

\* Strategy 2: WHERE normalized LIKE ? || '%' ORDER BY LENGTH(slug) LIMIT ?
Strategy2(rows, query_normalized, n) ==
    LET hit == {i \in DOMAIN rows : Like(query_normalized \o <<"%">>, rows[i].normalized)}
    IN  SlugsOf(rows, Take(SortIds(hit, [i \in hit |-> Len(rows[i].slug)]), n))

\* Strategy 3: WHERE normalized LIKE '%' || ? || '%'
\*             ORDER BY CASE WHEN normalized LIKE ? || '%' THEN 0 ELSE 1 END,
\*                      LENGTH(slug) LIMIT ?
Strategy3Key(row, query_normalized) ==
    (IF Like(query_normalized \o <<"%">>, row.normalized) THEN 0 ELSE 1)
        * (MaxSlugLen + 2) + Len(row.slug)

Strategy3(rows, query_normalized, n) ==
    LET hit == {i \in DOMAIN rows :
                   Like(<<"%">> \o query_normalized \o <<"%">>, rows[i].normalized)}
    IN  SlugsOf(rows, Take(SortIds(hit,
            [i \in hit |-> Strategy3Key(rows[i], query_normalized)]), n))

\* The tokens the unicode61 tokenizer cuts a text into: the maximal runs of
\* letters, case-folded.  The porter stemmer passes tokens shorter than three
\* characters through, and no suffix rule applies to a run of the letter a.
IsAlnum(c) == c \in {"a", "A"}

RECURSIVE Tokenize(_)
Tokenize(s) ==
    IF s = <<>> THEN <<>>
    ELSE IF ~IsAlnum(Head(s)) THEN Tokenize(Tail(s))
    ELSE LET n == IF \E i \in DOMAIN s : ~IsAlnum(s[i])
                  THEN (CHOOSE i \in DOMAIN s :
                            ~IsAlnum(s[i]) /\ \A j \in 1..(i - 1) : IsAlnum(s[j])) - 1
                  ELSE Len(s)
         IN  <<lower(SubSeq(s, 1, n))>> \o Tokenize(SubSeq(s, n + 1, Len(s)))

\* fts_query = ' '.join(f'{word}*' for word in query_normalized.split() if word)
FtsWords(query_normalized) == split(query_normalized)

\* FTS5 accepts word* only when word is a bareword; a word holding '%' is a
\* syntax error (sqlite3.OperationalError)
FtsSyntaxError(words) ==
    \E k \in DOMAIN words : \E i \in DOMAIN words[k] : ~IsAlnum(words[k][i])

\* slug_fts MATCH 'w1* w2* ...': every word is a prefix of some token
FtsMatches(db, query_normalized) ==
    LET words == FtsWords(query_normalized)
    IN  {i \in DOMAIN db.ftsdocs :
            /\ i \in DOMAIN db.rows
            /\ \A k \in DOMAIN words :
                  \E j \in DOMAIN Tokenize(db.ftsdocs[i]) :
                      IsPrefix(words[k], Tokenize(db.ftsdocs[i])[j])}

\* the orders in which ORDER BY rank may list the ids of S
Orders(S) == {o \in [1..Cardinality(S) -> S] : \A i \in S : \E k \in DOMAIN o : o[k] = i}

\* Strategy 4: the full-text query; rank lists the matching ids best first
Strategy4(db, query_normalized, n, rank) ==
    LET words == FtsWords(query_normalized)
    IN  IF words = <<>> THEN [ran |-> FALSE, failed |-> FALSE, slugs |-> <<>>]
        ELSE IF ~db.fts \/ FtsSyntaxError(words)
             THEN [ran |-> TRUE, failed |-> TRUE, slugs |-> <<>>]
        ELSE [ran |-> TRUE, failed |-> FALSE, slugs |-> SlugsOf(db.rows, Take(rank, n))]

\* what a query method hands back: a value, or an exception
Return(v) == [raised |-> FALSE, value |-> v]
Raise == [raised |-> TRUE, value |-> <<>>]

\* line 239 without its fuzzy test
StopBeforeFtsIgnoringFuzzy(n, limit, fuzzy) == n >= limit

\* line 239: if len(results) >= limit or not fuzzy: return results[:limit]
StopBeforeFts(n, limit, fuzzy) == n >= limit \/ ~fuzzy

\* return results[:limit]; ran: the strategies executed
Results(results, limit, ran) ==
    [raised |-> FALSE, value |-> Take(results, limit), strategies |-> ran]

\* lines 242-262 without the except clause of line 259
SearchAfter4Uncaught(limit, results, s4) ==
    IF s4.failed THEN [raised |-> TRUE, value |-> <<>>, strategies |-> {1, 2, 3, 4}]
    ELSE Results(AddNew(results, s4.slugs), limit,
                 IF s4.ran THEN {1, 2, 3, 4} ELSE {1, 2, 3})

\* lines 242-262, results and the full-text strategy's answer s4 in hand
SearchAfter4(limit, results, s4) ==
    Results(AddNew(results, s4.slugs), limit,
            IF s4.ran THEN {1, 2, 3, 4} ELSE {1, 2, 3})

\* lines 239-262, with the results of strategies 1 to 3
SearchAfter3(db, query_normalized, limit, fuzzy, rank, results) ==
    IF StopBeforeFts(Len(results), limit, fuzzy) THEN Results(results, limit, {1, 2, 3})
    ELSE SearchAfter4(limit, results,
                      Strategy4(db, query_normalized, limit - Len(results), rank))

\* lines 221-262, with the results of strategies 1 and 2
SearchAfter2(db, query_normalized, limit, fuzzy, rank, results) ==
    IF Len(results) >= limit THEN Results(results, limit, {1, 2})
    ELSE SearchAfter3(db, query_normalized, limit, fuzzy, rank,
                      AddNew(results,
                             Strategy3(db.rows, query_normalized, limit - Len(results))))

\* lines 205-262, with the results of strategy 1
SearchAfter1(db, query_normalized, limit, fuzzy, rank, results) ==
    IF Len(results) >= limit THEN Results(results, limit, {1})
    ELSE SearchAfter2(db, query_normalized, limit, fuzzy, rank,
                      AddNew(results,
                             Strategy2(db.rows, query_normalized, limit - Len(results))))

\* SQLiteSlugIndex.search from its blank-query test on, against the store the
\* caller's connection is open on
search(db, query, limit, fuzzy, rank) ==
    IF query = <<>> \/ strip(query) = <<>> THEN Results(<<>>, limit, {})
    ELSE IF ~db.tables THEN [raised |-> TRUE, value |-> <<>>, strategies |-> {1}]
    ELSE SearchAfter1(db, strip(replace_underscore(lower(query))), limit, fuzzy, rank,
                      AddNew(<<>>, Strategy1(db.rows, strip(lower(query)))))

\* min_similarity in tenths; 0.6 is the default of the parameter
DefaultMinSimilarity == 6

\* find_best_match with its threshold applied: at 1.0 only a slug equal to
\* the query up to case is a match
find_best_matchAbove(db, query, min_similarity, rank) ==
    LET r == search(db, query, 1, TRUE, rank)
    IN  [r EXCEPT !.value =
            IF r.raised \/ r.value = <<>> THEN None
            ELSE IF min_similarity >= 10 /\ lower(r.value[1]) # lower(strip(query))
                 THEN None
            ELSE Some(r.value[1])]

\* SQLiteSlugIndex.find_best_match: results[0] of search(query, 1, True), or
\* None; min_similarity is not read
find_best_match(db, query, min_similarity, rank) ==
    LET r == search(db, query, 1, TRUE, rank)
    IN  [r EXCEPT !.value = IF r.raised \/ r.value = <<>> THEN None ELSE Some(r.value[1])]

\* exists comparing its argument as given
existsNoLower(db, slug) ==
    IF ~db.tables THEN Raise
    ELSE Return(\E i \in DOMAIN db.rows : db.rows[i].slug_lower = slug)

\* SQLiteSlugIndex.exists after its initialization check
exists(db, slug) ==
    IF ~db.tables THEN Raise
    ELSE Return(\E i \in DOMAIN db.rows : db.rows[i].slug_lower = lower(slug))

\* SQLiteSlugIndex.get_total_count after its initialization check
get_total_count(db) == IF ~db.tables THEN Raise ELSE Return(Len(db.rows))

\* the code point order of the characters, which ORDER BY slug compares by
Ord(c) == CASE c = " " -> 32 [] c = "%" -> 37 [] c = "A" -> 65
            [] c = "_" -> 95 [] c = "a" -> 97

RECURSIVE StrLess(_, _)
StrLess(s, t) ==
    IF t = <<>> THEN FALSE
    ELSE IF s = <<>> THEN TRUE
    ELSE IF Head(s) # Head(t) THEN Ord(Head(s)) < Ord(Head(t))
    ELSE StrLess(Tail(s), Tail(t))

\* the elements of S, slug-ascending
RECURSIVE SortBySlug(_, _)
SortBySlug(rows, S) ==
    IF S = {} THEN <<>>
    ELSE LET m == CHOOSE i \in S : \A j \in S \ {i} : StrLess(rows[i].slug, rows[j].slug)
         IN  <<m>> \o SortBySlug(rows, S \ {m})

\* SQLiteSlugIndex.list_by_prefix after its initialization check; without a
\* prefix SQLite walks the index on slug
list_by_prefix(db, prefix, limit) ==
    LET hit == IF prefix = <<>> THEN DOMAIN db.rows
               ELSE {i \in DOMAIN db.rows :
                        Like(lower(prefix) \o <<"%">>, db.rows[i].slug_lower)}
    IN  IF ~db.tables THEN Raise
        ELSE Return(SlugsOf(db.rows, Take(SortBySlug(db.rows, hit), limit)))

\* SQLiteSlugIndex.get_slug_date after its initialization check
get_slug_date(db, slug) ==
    LET hit == {i \in DOMAIN db.rows : db.rows[i].slug_lower = lower(slug)}
    IN  IF ~db.tables THEN Raise
        ELSE IF hit = {} THEN Return(None)
        ELSE Return(db.rows[CHOOSE i \in hit : \A j \in hit : i <= j].lastmod)

\* ------------------------------------------------------------------ build
\* names = [line.strip() for line in f if line.strip()]
RECURSIVE ReadNames(_)
ReadNames(lines) ==
    IF lines = <<>> THEN <<>>
    ELSE IF strip(Head(lines)) = <<>> THEN ReadNames(Tail(lines))
    ELSE <<strip(Head(lines))>> \o ReadNames(Tail(lines))

\* dates = [line.strip() for line in f], [] without a dates.txt
ReadDates(part) ==
    IF part.has_dates THEN [i \in DOMAIN part.dates |-> strip(part.dates[i])] ELSE <<>>

\* entry i of a partition: (slug, slug_lower, normalized, lastmod)
EntryAt(part, i) ==
    Entry(ReadNames(part.names)[i],
          IF i <= Len(ReadDates(part)) THEN Some(ReadDates(part)[i]) ELSE None)

\* the partition loop without the except clause's skip: a names.txt that
\* raises on read is read like any other
RECURSIVE AdvanceReadsAll(_, _, _, _)
AdvanceReadsAll(links, p, i, batch) ==
    IF p > Len(links) THEN [flush |-> FALSE, part |-> p, i |-> i, batch |-> batch]
    ELSE IF ~links[p].has_names THEN AdvanceReadsAll(links, p + 1, 1, batch)
    ELSE IF i > Len(ReadNames(links[p].names)) THEN AdvanceReadsAll(links, p + 1, 1, batch)
    ELSE IF Len(batch) + 1 >= batch_size
         THEN [flush |-> TRUE, part |-> p, i |-> i + 1,
               batch |-> Append(batch, EntryAt(links[p], i))]
    ELSE AdvanceReadsAll(links, p, i + 1, Append(batch, EntryAt(links[p], i)))

\* The partition loop from entry i of partition p on, until a batch is due
\* (flush) or the partitions are exhausted.  A partition without names.txt,
\* or one that raises on read, is skipped.
RECURSIVE Advance(_, _, _, _)
Advance(links, p, i, batch) ==
    IF p > Len(links) THEN [flush |-> FALSE, part |-> p, i |-> i, batch |-> batch]
    ELSE IF ~links[p].has_names \/ ~links[p].readable
         THEN Advance(links, p + 1, 1, batch)
    ELSE IF i > Len(ReadNames(links[p].names)) THEN Advance(links, p + 1, 1, batch)
    ELSE IF Len(batch) + 1 >= batch_size
         THEN [flush |-> TRUE, part |-> p, i |-> i + 1,
               batch |-> Append(batch, EntryAt(links[p], i))]
    ELSE Advance(links, p, i + 1, Append(batch, EntryAt(links[p], i)))

\* the two DROP statements left out
DropTablesKeeps(db) == db

\* DROP TABLE IF EXISTS slugs; DROP TABLE IF EXISTS slug_fts
DropTables(db) == NoFile

\* CREATE TABLE slugs; CREATE VIRTUAL TABLE slug_fts; CREATE INDEX ...
CreateTables(db) == [db EXCEPT !.tables = TRUE, !.fts = TRUE]

\* SQLiteSlugIndex._insert_batch: executemany(INSERT OR IGNORE ...); commit
_insert_batch(db, batch) == [db EXCEPT !.rows = InsertOrIgnore(db.rows, batch)]

\* INSERT INTO slug_fts(slug_fts) VALUES('rebuild'); commit
FtsRebuild(db) == [db EXCEPT !.ftsdocs = [i \in DOMAIN db.rows |-> db.rows[i].normalized]]

\* the locals of a running build
NewBuild == [part |-> 1, i |-> 1, batch |-> <<>>, total_loaded |-> 0]

\* The load loop up to and including its next commit.  fail: the batch insert
\* raises.  Inside the partition loop the raise is caught by the loop's
\* except clause, which moves on to the next partition with the batch kept;
\* the insert of the remaining batch is outside it.
LoadNext(db, links, b, fail) ==
    LET adv == Advance(links, b.part, b.i, b.batch)
        bad == fail \/ ~db.tables
    IN  IF adv.flush
        THEN IF bad
             THEN [db |-> db, done |-> FALSE, raised |-> FALSE,
                   b |-> [part |-> adv.part + 1, i |-> 1, batch |-> adv.batch,
                          total_loaded |-> b.total_loaded]]
             ELSE [db |-> _insert_batch(db, adv.batch), done |-> FALSE, raised |-> FALSE,
                   b |-> [part |-> adv.part, i |-> adv.i, batch |-> <<>>,
                          total_loaded |-> b.total_loaded + Len(adv.batch)]]
        ELSE IF adv.batch = <<>>
             THEN [db |-> db, done |-> TRUE, raised |-> FALSE,
                   b |-> [part |-> adv.part, i |-> adv.i, batch |-> <<>>,
                          total_loaded |-> b.total_loaded]]
        ELSE IF bad
             THEN [db |-> db, done |-> TRUE, raised |-> TRUE,
                   b |-> [part |-> adv.part, i |-> adv.i, batch |-> adv.batch,
                          total_loaded |-> b.total_loaded]]
        ELSE [db |-> _insert_batch(db, adv.batch), done |-> TRUE, raised |-> FALSE,
              b |-> [part |-> adv.part, i |-> adv.i, batch |-> <<>>,
                     total_loaded |-> b.total_loaded + Len(adv.batch)]]

\* the whole load loop, no insert raising
RECURSIVE LoadAll(_, _, _)
LoadAll(db, links, b) ==
    LET n == LoadNext(db, links, b, FALSE)
    IN  IF n.done THEN n ELSE LoadAll(n.db, links, n.b)

\* ------------------------------------------------------------------ state
NThreads == 2
Threads == 1..NThreads
MaxScriptRuns == 1   \* runs of scripts/build_slug_db.py
MaxFaults == 1       \* statements of a build that raise

VARIABLES
    links,          \* the partitions under links_dir, in sorted order
    links_exists,   \* Path(links_dir).exists()
    files,          \* every file created at db_path so far, oldest first
    cur,            \* the file db_path names now; 0: the path does not exist
    _initialized,   \* SQLiteSlugIndex._initialized
    _lock,          \* the thread inside `with self._lock`, 0: free
    _local,         \* _local.connection per thread: the file it is open on, 0: None
    pc,             \* where each thread is in its call
    call,           \* the call each thread is making, or made last
    ret,            \* what that call returned, and what it did on the way
    bld,            \* the locals of each thread's _build_index
    script,         \* a run of scripts/build_slug_db.py in another process
    hist,           \* history: builds started and completed, failures injected
    mgr             \* the module globals of sdk_manager and of the index module

vars == <<links, links_exists, files, cur, _initialized, _lock, _local, pc, call,
          ret, bld, script, hist, mgr>>

\* ------------------------------------------------- the handle, one thread
\* What one thread's call reads and writes: the files, the path, the handle's
\* flag and the thread's own connection.
World(t) == [files |-> files, cur |-> cur, init |-> _initialized, conn |-> _local[t]]

SetWorld(t, w) ==
    /\ files' = w.files
    /\ cur' = w.cur
    /\ _initialized' = w.init
    /\ _local' = [_local EXCEPT ![t] = w.conn]

\* _get_connection without its cache: a connection opened at every call
_get_connectionReopens(w) ==
    IF w.cur # 0 THEN [w EXCEPT !.conn = w.cur]
    ELSE [w EXCEPT !.files = Append(w.files, NoFile),
                   !.cur = Len(w.files) + 1,
                   !.conn = Len(w.files) + 1]

\* SQLiteSlugIndex._get_connection: the thread's cached connection, opened
\* on first use; sqlite3.connect creates the file when the path names none.
_get_connection(w) ==
    IF w.conn # 0 THEN w
    ELSE IF w.cur # 0 THEN [w EXCEPT !.conn = w.cur]
    ELSE [w EXCEPT !.files = Append(w.files, NoFile),
                   !.cur = Len(w.files) + 1,
                   !.conn = Len(w.files) + 1]

Db(w) == w.files[w.conn]
SetDb(w, db) == [w EXCEPT !.files[w.conn] = db]

\* SQLiteSlugIndex._build_index run to its end, nothing raising
_build_index(w, src) ==
    LET w1 == _get_connection(w)
        l == LoadAll(CreateTables(DropTables(Db(w1))), src, NewBuild)
    IN  [w |-> SetDb(w1, FtsRebuild(l.db)), total_loaded |-> l.b.total_loaded]

\* lines 62-73 with the test of the count left out
StoreHasDataAnyCount(w) == w.cur # 0 /\ Db(w).tables

\* lines 62-73: the store exists and SELECT COUNT(*) FROM slugs is positive;
\* a missing table (OperationalError) counts as no data
StoreHasData(w) == w.cur # 0 /\ Db(w).tables /\ Len(Db(w).rows) > 0

\* _ensure_initialized without the tests of the flag (lines 55 and 59)
_ensure_initializedAlways(w, src, src_exists) ==
    LET w1 == IF w.cur # 0 THEN _get_connection(w) ELSE w
    IN  IF StoreHasData(w1)
        THEN [w |-> [w1 EXCEPT !.init = TRUE], ok |-> TRUE,
              checked |-> TRUE, built |-> FALSE]
        ELSE IF src_exists
             THEN [w |-> [_build_index(w1, src).w EXCEPT !.init = TRUE], ok |-> TRUE,
                   checked |-> TRUE, built |-> TRUE]
        ELSE [w |-> w1, ok |-> FALSE, checked |-> TRUE, built |-> FALSE]

\* SQLiteSlugIndex._ensure_initialized by a thread no other thread competes
\* with.  checked: the store was looked at; built: _build_index ran.
_ensure_initialized(w, src, src_exists) ==
    LET w1 == IF w.cur # 0 THEN _get_connection(w) ELSE w
    IN  IF w.init THEN [w |-> w, ok |-> TRUE, checked |-> FALSE, built |-> FALSE]
        ELSE IF StoreHasData(w1)
             THEN [w |-> [w1 EXCEPT !.init = TRUE], ok |-> TRUE,
                   checked |-> TRUE, built |-> FALSE]
        ELSE IF src_exists
             THEN [w |-> [_build_index(w1, src).w EXCEPT !.init = TRUE], ok |-> TRUE,
                   checked |-> TRUE, built |-> TRUE]
        ELSE [w |-> w1, ok |-> FALSE, checked |-> TRUE, built |-> FALSE]

\* the calls of the query interface
Ops == {"search", "exists", "find_best_match", "list_by_prefix",
        "get_total_count", "get_slug_date"}

NoCall == [op |-> "none", arg |-> <<>>, limit |-> 0, fuzzy |-> FALSE]
\* what a call returned (raised, value) and did: ok, _ensure_initialized
\* returned True; checked, it looked at the store; built, it ran _build_index;
\* opened, it opened the thread's connection; created, it created a file;
\* locked, it took the lock; and what it found when it began: store, a store
\* with records at db_path; source, the source root
NoRet == [raised |-> FALSE, value |-> <<>>, strategies |-> {}, ok |-> FALSE,
          checked |-> FALSE, built |-> FALSE, opened |-> FALSE, created |-> FALSE,
          store |-> FALSE, source |-> FALSE, locked |-> FALSE]

\* what is at db_path: the file there, nothing when the path names none
AtPath == IF cur = 0 THEN NoFile ELSE files[cur]

\* os.path.exists(db_path) and the file there holds at least one record
UsableStore == cur # 0 /\ files[cur].tables /\ Len(files[cur].rows) > 0

\* what each method returns when _ensure_initialized returns False
Default(op) ==
    CASE op \in {"search", "list_by_prefix"} -> <<>>
      [] op = "exists" -> FALSE
      [] op = "get_total_count" -> 0
      [] op \in {"find_best_match", "get_slug_date"} -> None

\* the min_similarity a find_best_match call passes, the default when it
\* passes none
MinSimilarityOf(c) ==
    IF "min_similarity" \in DOMAIN c THEN c.min_similarity ELSE DefaultMinSimilarity

\* the query of a call against the store its connection is open on
Query(db, c, rank) ==
    CASE c.op = "search" -> search(db, c.arg, c.limit, c.fuzzy, rank)
      [] c.op = "find_best_match" ->
             find_best_match(db, c.arg, MinSimilarityOf(c), rank)
      [] c.op = "exists" -> exists(db, c.arg) @@ [strategies |-> {}]
      [] c.op = "list_by_prefix" -> list_by_prefix(db, c.arg, c.limit) @@ [strategies |-> {}]
      [] c.op = "get_total_count" -> get_total_count(db) @@ [strategies |-> {}]
      [] c.op = "get_slug_date" -> get_slug_date(db, c.arg) @@ [strategies |-> {}]

Blank(c) == c.op \in {"search", "find_best_match"} /\ strip(c.arg) = <<>>

\* A query method after _ensure_initialized returned e (lines 183-189 of
\* search, and the like in the others): the default when the handle is not
\* ready, [] for a blank search, else the query over the thread's connection.
AfterEnsure(e, c, rank) ==
    LET w2 == _get_connection(e.w)
        eff == [ok |-> e.ok, checked |-> e.checked, built |-> e.built]
    IN  IF ~e.ok \/ Blank(c)
        THEN [w |-> e.w,
              ret |-> [raised |-> FALSE, value |-> Default(c.op), strategies |-> {}] @@ eff]
        ELSE [w |-> w2, ret |-> Query(Db(w2), c, rank) @@ eff]

\* the ranks the full-text strategy of call c may be answered with
Ranks(w, c) ==
    IF c.op \in {"search", "find_best_match"}
    THEN Orders(FtsMatches(Db(_get_connection(w)), strip(replace_underscore(lower(c.arg)))))
    ELSE {<<>>}

\* One whole call by thread t with no other thread running: the method from
\* its first line to its return.  e: what _ensure_initialized returned and
\* left; r: what the rest of the method returned and left.
CallReturn(t, e, r) ==
    /\ pc' = [pc EXCEPT ![t] = "done"]
    /\ SetWorld(t, r.w)
    /\ ret' = [ret EXCEPT ![t] = r.ret @@
                  [opened |-> _local[t] = 0 /\ r.w.conn # 0,
                   created |-> Len(r.w.files) > Len(files),
                   store |-> UsableStore, source |-> links_exists,
                   locked |-> ~_initialized]]
    /\ hist' = [hist EXCEPT !.started = @ + (IF e.built THEN 1 ELSE 0),
                            !.completed = @ + (IF e.built THEN 1 ELSE 0)]
    /\ UNCHANGED <<mgr, links, links_exists, _lock, bld, script>>

CallWith(t, c, e) ==
    /\ call' = [call EXCEPT ![t] = c]
    /\ \E rank \in Ranks(e.w, c) : CallReturn(t, e, AfterEnsure(e, c, rank))

CallAlone(t, c) ==
    /\ pc[t] = "idle"
    /\ CallWith(t, c, _ensure_initialized(World(t), links, links_exists))

\* ------------------------------------------------------------ the queries
\* a partition directory: names.txt and dates.txt as lists of lines
Partition(names, has_dates, dates) ==
    [has_names |-> TRUE, readable |-> TRUE, names |-> names,
     has_dates |-> has_dates, dates |-> dates]

Slugs == Strs(SlugChars, MaxSlugLen) \ {<<>>}
\* the queries: every string shorter than MaxQueryLen, and of the longest
\* the ones of words and separators
Queries == Strs(QueryChars, MaxQueryLen - 1) \cup [1..MaxQueryLen -> {"a", " ", "_"}]

\* source roots of one partition with up to MaxNames identifiers, no dates
QueryCorpora ==
    {<<Partition(n, FALSE, <<>>)>> : n \in UNION {[1..k -> Slugs] : k \in 0..MaxNames}}

NoScript == [pc |-> "idle", conn |-> 0, b |-> NewBuild, runs |-> 0, ret |-> 0,
             pre |-> NoFile]
NoHist == [started |-> 0, completed |-> 0, faults |-> 0, aborted |-> FALSE,
           pre |-> NoFile]

\* _cached_client: None, a _SQLiteClientWrapper, a Client of the SDK
NoClient == [kind |-> "None", id |-> 0]
Wrapper(k) == [kind |-> "_SQLiteClientWrapper", id |-> k]
SdkClient == [kind |-> "Client", id |-> 0]

\* the locals of a thread inside the accessors: the function it entered by,
\* the wrapper it holds, the value the innermost call returned
NoFrame == [entry |-> "none", wrapper |-> 0, value |-> 0]

\* sdk_manager as imported: _sdk_available and the environment that
\* _use_sqlite_index reads; no client, no wrapper (wrappers: the _sqlite_index
\* of each), neither module's _sqlite_index set, no SQLiteSlugIndex
\* constructed (handles: the _initialized of each); got: the handle each
\* thread was handed; warmed: a warm_slug_index call has returned True
Manager(available, sqlite) ==
    [_sdk_available |-> available, use_sqlite |-> sqlite, _cached_client |-> NoClient,
     wrappers |-> <<>>, manager_sqlite_index |-> 0, module_sqlite_index |-> 0,
     handles |-> <<>>, frame |-> [t \in Threads |-> NoFrame],
     got |-> [t \in Threads |-> 0], warmed |-> FALSE]

NoMgr == Manager(TRUE, TRUE)

\* a process start but for the module globals
InitHandle(pool, stores, roots) ==
    /\ links \in pool
    /\ links_exists \in roots
    /\ files \in stores
    /\ cur = Len(files)
    /\ _initialized = FALSE
    /\ _lock = 0
    /\ _local = [t \in Threads |-> 0]
    /\ pc = [t \in Threads |-> "idle"]
    /\ call = [t \in Threads |-> NoCall]
    /\ ret = [t \in Threads |-> NoRet]
    /\ bld = [t \in Threads |-> NewBuild]
    /\ script = NoScript
    /\ hist = NoHist

\* a process start: a fresh handle; the store and the source root as found
InitProcess(pool, stores, roots) ==
    /\ InitHandle(pool, stores, roots)
    /\ mgr = NoMgr

InitQuery == InitProcess(QueryCorpora, {<<>>}, {TRUE})

QSearch ==
    \E q \in Queries, limit \in 0..MaxLimit, fuzzy \in BOOLEAN :
           CallAlone(1, [op |-> "search", arg |-> q, limit |-> limit, fuzzy |-> fuzzy])

QExists ==
    \E v \in Queries :
           CallAlone(1, [op |-> "exists", arg |-> v, limit |-> 0, fuzzy |-> FALSE])

QList ==
    \E v \in Strs(QueryChars, MaxQueryLen - 1), limit \in 0..MaxLimit :
        CallAlone(1, [op |-> "list_by_prefix", arg |-> v, limit |-> limit,
                      fuzzy |-> FALSE])

NextQuery == QSearch \/ QExists \/ QList

\* one thread querying a store it built from the source root on first use
SpecQuery == InitQuery /\ [][NextQuery]_vars

\* ------------------------------------------- one thread and its surroundings
\* source roots of up to two partitions whose identifiers may repeat
SeqSlugs == {<<"a">>, <<"A">>}
SeqNames == UNION {[1..k -> SeqSlugs] : k \in 0..MaxNames}
SeqCorpora ==
    {<<Partition(n, FALSE, <<>>)>> : n \in SeqNames}
        \cup {<<Partition(n, FALSE, <<>>), Partition(m, FALSE, <<>>)>> :
                  n \in SeqNames \ {<<>>}, m \in SeqNames \ {<<>>}}

\* the store a process may find at start: none, an empty file, empty tables
SeqStores == {<<>>, <<NoFile>>, <<CreateTables(NoFile)>>}

SeqCalls ==
    {[op |-> "search", arg |-> q, limit |-> 1, fuzzy |-> TRUE] :
         q \in {<<>>, <<" ">>, <<"a">>}}
    \cup {[op |-> o, arg |-> <<"a">>, limit |-> 1, fuzzy |-> TRUE] :
              o \in {"exists", "find_best_match", "list_by_prefix", "get_slug_date"}}
    \cup {[op |-> "get_total_count", arg |-> <<>>, limit |-> 0, fuzzy |-> FALSE]}

InitSeq == InitProcess(SeqCorpora, SeqStores, BOOLEAN)

SeqCall == \E c \in SeqCalls : CallAlone(1, c)

\* the caller takes the result; the thread is free for its next call
ReturnToCaller(t) ==
    /\ pc[t] = "done"
    /\ pc' = [pc EXCEPT ![t] = "idle"]
    /\ call' = [call EXCEPT ![t] = NoCall]
    /\ ret' = [ret EXCEPT ![t] = NoRet]
    /\ UNCHANGED <<mgr, links, links_exists, files, cur, _initialized, _lock, _local,
                   bld, script, hist>>

SeqReturn == ReturnToCaller(1)

\* the source root is put in place
LinksAppear ==
    /\ ~links_exists
    /\ links_exists' = TRUE
    /\ UNCHANGED <<mgr, links, files, cur, _initialized, _lock, _local, pc, call, ret,
                   bld, script, hist>>

\* ------------------------------------------------ threads, step by step
\* with self._lock: the lock is taken when no thread holds it
CanAcquireAlways(l) == TRUE
CanAcquire(l) == l = 0

\* a statement of a build may raise, at most MaxFaults times in a behaviour
Faults == {FALSE} \cup (IF hist.faults < MaxFaults THEN {TRUE} ELSE {})

\* the effects of a step that takes thread t's world to w, added to r
Touched(t, r, w) ==
    [r EXCEPT !.opened = @ \/ (_local[t] = 0 /\ w.conn # 0),
              !.created = @ \/ Len(w.files) > Len(files)]

SpecCalls ==
    {[op |-> o, arg |-> <<"a">>, limit |-> 1, fuzzy |-> TRUE] :
         o \in {"search", "exists", "list_by_prefix", "get_slug_date"}}
    \cup {[op |-> "get_total_count", arg |-> <<>>, limit |-> 0, fuzzy |-> FALSE]}

\* line 55: the check of _initialized made without the lock
Begin(t, c) ==
    /\ pc[t] = "idle"
    /\ call' = [call EXCEPT ![t] = c]
    /\ ret' = [ret EXCEPT ![t] = [NoRet EXCEPT !.store = UsableStore,
                                               !.source = links_exists,
                                               !.ok = _initialized]]
    /\ pc' = [pc EXCEPT ![t] = IF _initialized THEN "query" ELSE "wait"]
    /\ UNCHANGED <<mgr, links, links_exists, files, cur, _initialized, _lock, _local,
                   bld, script, hist>>

\* line 58: with self._lock
Acquire(t) ==
    /\ pc[t] = "wait"
    /\ CanAcquire(_lock)
    /\ _lock' = t
    /\ pc' = [pc EXCEPT ![t] = "locked"]
    /\ ret' = [ret EXCEPT ![t].locked = TRUE]
    /\ UNCHANGED <<mgr, links, links_exists, files, cur, _initialized, _local, call,
                   bld, script, hist>>

\* lines 59-83 up to the call of _build_index, and line 87 of it: the second
\* check of the flag, the look at the store, the choice to build
Check(t) ==
    /\ pc[t] = "locked"
    /\ LET w == World(t)
           w1 == IF w.cur # 0 THEN _get_connection(w) ELSE w
           w2 == _get_connection(w1)
       IN  IF _initialized
           THEN /\ pc' = [pc EXCEPT ![t] = "query"]
                /\ ret' = [ret EXCEPT ![t].ok = TRUE]
                /\ _lock' = 0
                /\ UNCHANGED <<mgr, files, cur, _initialized, _local, bld, hist>>
           ELSE IF StoreHasData(w1)
           THEN /\ pc' = [pc EXCEPT ![t] = "query"]
                /\ ret' = [ret EXCEPT ![t] = [Touched(t, @, w1) EXCEPT !.ok = TRUE,
                                                                     !.checked = TRUE]]
                /\ SetWorld(t, [w1 EXCEPT !.init = TRUE])
                /\ _lock' = 0
                /\ UNCHANGED <<mgr, bld, hist>>
           ELSE IF links_exists
           THEN /\ pc' = [pc EXCEPT ![t] = "drop"]
                /\ ret' = [ret EXCEPT ![t] = [Touched(t, @, w2) EXCEPT !.checked = TRUE,
                                                                     !.built = TRUE]]
                /\ SetWorld(t, w2)
                /\ bld' = [bld EXCEPT ![t] = NewBuild]
                /\ hist' = [hist EXCEPT !.started = @ + 1, !.pre = AtPath]
                /\ UNCHANGED _lock
           ELSE /\ pc' = [pc EXCEPT ![t] = "query"]
                /\ ret' = [ret EXCEPT ![t] = [Touched(t, @, w1) EXCEPT !.checked = TRUE]]
                /\ SetWorld(t, w1)
                /\ _lock' = 0
                /\ UNCHANGED <<mgr, bld, hist>>
    /\ UNCHANGED <<mgr, links, links_exists, call, script>>

\* a raise that leaves the with block without releasing the lock
AbortHoldingLock(t, aborted) ==
    /\ pc' = [pc EXCEPT ![t] = "done"]
    /\ ret' = [ret EXCEPT ![t].raised = TRUE]
    /\ _lock' = _lock
    /\ hist' = [hist EXCEPT !.faults = @ + 1, !.aborted = @ \/ aborted]
    /\ UNCHANGED <<mgr, files, cur, _initialized, _local, bld>>

\* a statement of the build raises: the exception leaves _build_index,
\* _ensure_initialized (releasing the lock) and the query method
Abort(t, aborted) ==
    /\ pc' = [pc EXCEPT ![t] = "done"]
    /\ ret' = [ret EXCEPT ![t].raised = TRUE]
    /\ _lock' = 0
    /\ hist' = [hist EXCEPT !.faults = @ + 1, !.aborted = @ \/ aborted]
    /\ UNCHANGED <<mgr, files, cur, _initialized, _local, bld>>

\* lines 91-92 of the script of statements, each committed as it runs
Drop(t) ==
    /\ pc[t] = "drop"
    /\ files' = [files EXCEPT ![_local[t]] = DropTables(@)]
    /\ pc' = [pc EXCEPT ![t] = "create"]
    /\ UNCHANGED <<mgr, links, links_exists, cur, _initialized, _lock, _local, call, ret,
                   bld, script, hist>>

\* lines 94-111
Create(t, fail) ==
    /\ pc[t] = "create"
    /\ IF fail THEN Abort(t, TRUE)
       ELSE /\ files' = [files EXCEPT ![_local[t]] = CreateTables(@)]
            /\ pc' = [pc EXCEPT ![t] = "load"]
            /\ UNCHANGED <<mgr, cur, _initialized, _lock, _local, ret, bld, hist>>
    /\ UNCHANGED <<mgr, links, links_exists, call, script>>

\* the load loop has an insert ahead
Inserts(src, b) ==
    LET adv == Advance(src, b.part, b.i, b.batch) IN adv.flush \/ adv.batch # <<>>

\* lines 119-155, up to and including the next commit
Load(t, fail) ==
    /\ pc[t] = "load"
    /\ fail => Inserts(links, bld[t])
    /\ LET n == LoadNext(files[_local[t]], links, bld[t], fail)
       IN  IF n.raised THEN Abort(t, FALSE)
           ELSE /\ files' = [files EXCEPT ![_local[t]] = n.db]
                /\ bld' = [bld EXCEPT ![t] = n.b]
                /\ pc' = [pc EXCEPT ![t] = IF n.done THEN "fts" ELSE "load"]
                /\ hist' = [hist EXCEPT !.faults = @ + (IF fail THEN 1 ELSE 0)]
                /\ UNCHANGED <<mgr, cur, _initialized, _lock, _local, ret>>
    /\ UNCHANGED <<mgr, links, links_exists, call, script>>

\* lines 158-159, then lines 79-80 and the release of the lock
Fts(t, fail) ==
    /\ pc[t] = "fts"
    /\ IF fail THEN Abort(t, TRUE)
       ELSE /\ files' = [files EXCEPT ![_local[t]] = FtsRebuild(@)]
            /\ _initialized' = TRUE
            /\ _lock' = 0
            /\ pc' = [pc EXCEPT ![t] = "query"]
            /\ ret' = [ret EXCEPT ![t].ok = TRUE]
            /\ hist' = [hist EXCEPT !.completed = @ + 1, !.aborted = FALSE]
            /\ UNCHANGED <<mgr, cur, _local, bld>>
    /\ UNCHANGED <<mgr, links, links_exists, call, script>>

\* the query method after _ensure_initialized returned
Answer(t) ==
    /\ pc[t] = "query"
    /\ LET e == [w |-> World(t), ok |-> ret[t].ok, checked |-> ret[t].checked,
                 built |-> ret[t].built]
       IN  \E rank \in (IF e.ok THEN Ranks(e.w, call[t]) ELSE {<<>>}) :
               LET r == AfterEnsure(e, call[t], rank)
               IN  /\ SetWorld(t, r.w)
                   /\ ret' = [ret EXCEPT ![t] = r.ret @@ Touched(t, @, r.w)]
    /\ pc' = [pc EXCEPT ![t] = "done"]
    /\ UNCHANGED <<mgr, links, links_exists, _lock, call, bld, script, hist>>

\* ------------------------------------------- the build script, step by step
\* lines 31-33: the old file is removed
ScriptRemove ==
    /\ script.pc \in {"idle", "done", "failed"}
    /\ script.runs < MaxScriptRuns
    /\ cur' = 0
    /\ script' = [NoScript EXCEPT !.pc = "connect", !.runs = script.runs + 1,
                                  !.pre = AtPath]
    /\ UNCHANGED <<mgr, links, links_exists, files, _initialized, _lock, _local, pc, call,
                   ret, bld, hist>>

\* lines 35-57: connect, which creates the file unless some other process
\* has created one since, and the schema, which raises if it is there already
ScriptCreate ==
    /\ script.pc = "connect"
    /\ LET w == _get_connection([files |-> files, cur |-> cur, init |-> FALSE, conn |-> 0])
       IN  /\ cur' = w.cur
           /\ IF Db(w).tables
              THEN /\ files' = w.files
                   /\ script' = [script EXCEPT !.pc = "failed", !.conn = w.conn]
              ELSE /\ files' = SetDb(w, CreateTables(Db(w))).files
                   /\ script' = [script EXCEPT !.pc = "load", !.conn = w.conn]
    /\ UNCHANGED <<mgr, links, links_exists, _initialized, _lock, _local, pc, call, ret,
                   bld, hist>>

\* lines 66-110, up to and including the next commit
ScriptLoad ==
    /\ script.pc = "load"
    /\ LET n == LoadNext(files[script.conn], links, script.b, FALSE)
       IN  /\ files' = [files EXCEPT ![script.conn] = n.db]
           /\ script' = [script EXCEPT !.b = n.b,
                                       !.pc = IF n.raised THEN "failed"
                                              ELSE IF n.done THEN "fts" ELSE "load"]
    /\ UNCHANGED <<mgr, links, links_exists, cur, _initialized, _lock, _local, pc, call,
                   ret, bld, hist>>

\* lines 112-130
ScriptFts ==
    /\ script.pc = "fts"
    /\ IF files[script.conn].fts
       THEN /\ files' = [files EXCEPT ![script.conn] = FtsRebuild(@)]
            /\ script' = [script EXCEPT !.pc = "done", !.ret = script.b.total_loaded]
       ELSE /\ script' = [script EXCEPT !.pc = "failed"]
            /\ UNCHANGED files
    /\ UNCHANGED <<mgr, links, links_exists, cur, _initialized, _lock, _local, pc, call,
                   ret, bld, hist>>

NextSeq ==
    \/ SeqCall \/ SeqReturn \/ LinksAppear
    \/ ScriptRemove \/ ScriptCreate \/ ScriptLoad \/ ScriptFts

\* one thread calling the handle, with the build script run in another process
\* and the source root put in place around it
SpecSeq == InitSeq /\ [][NextSeq]_vars

\* ------------------------------------------------------- builds running
BuildPcs == {"drop", "create", "load", "fts"}

\* the stores the builds now running started from
PreBuild ==
    {hist.pre : t \in {u \in Threads : pc[u] \in BuildPcs}}
        \cup (IF script.pc \in {"connect", "load", "fts"} THEN {script.pre} ELSE {})

SpecCorpora ==
    {<<Partition(<<>>, FALSE, <<>>)>>,
     <<Partition(<< <<"a">>, <<"A">> >>, FALSE, <<>>)>>,
     <<Partition(<< <<"a">> >>, FALSE, <<>>), Partition(<< <<"a">> >>, FALSE, <<>>)>>}

Init == InitProcess(SpecCorpora, SeqStores, BOOLEAN)

Next ==
    \/ \E t \in Threads, c \in SpecCalls : Begin(t, c)
    \/ \E t \in Threads : Acquire(t)
    \/ \E t \in Threads : Check(t)
    \/ \E t \in Threads : Drop(t)
    \/ \E t \in Threads, fail \in Faults : Create(t, fail)
    \/ \E t \in Threads, fail \in Faults : Load(t, fail)
    \/ \E t \in Threads, fail \in Faults : Fts(t, fail)
    \/ \E t \in Threads : Answer(t)
    \/ \E t \in Threads : ReturnToCaller(t)
    \/ LinksAppear

\* the threads of one process sharing a handle, builds that may fail
Spec == Init /\ [][Next]_vars

\* ----------------------------------------------- first calls, scheduled fairly
\* Answer(t) as the program counters show it: Answer(t) is enabled whenever
\* pc[t] is "query", and no other step takes pc[t] from there to "done"
AnswerStep(t) == pc[t] = "query" /\ pc' = [pc EXCEPT ![t] = "done"] /\ bld' = bld

\* a step of thread t inside a call it has begun
Proceed(t) ==
    \/ Acquire(t)
    \/ Check(t)
    \/ Drop(t)
    \/ \E fail \in Faults : Create(t, fail)
    \/ \E fail \in Faults : Load(t, fail)
    \/ \E fail \in Faults : Fts(t, fail)
    \/ AnswerStep(t)

\* the calls of one indexed lookup
LookupCalls == {c \in SpecCalls : c.op \in {"list_by_prefix", "get_slug_date"}}

NextFirstCalls ==
    \/ \E t \in Threads, c \in LookupCalls : Begin(t, c)
    \/ \E t \in Threads : Acquire(t)
    \/ \E t \in Threads : Check(t)
    \/ \E t \in Threads : Drop(t)
    \/ \E t \in Threads, fail \in Faults : Create(t, fail)
    \/ \E t \in Threads, fail \in Faults : Load(t, fail)
    \/ \E t \in Threads, fail \in Faults : Fts(t, fail)
    \/ \E t \in Threads : Answer(t)
    \/ LinksAppear

\* Each thread makes at most one call, its first on the handle.  A thread
\* that can take a step of its call does so in the end (the scheduler runs
\* every runnable thread); when a thread calls and when the source root
\* appears is left open.  Every step of a call moves the thread on (pc) or
\* the load loop of its build (bld).
SpecFirstCalls ==
    Init /\ [][NextFirstCalls]_vars /\ \A t \in Threads : WF_<<pc, bld>>(Proceed(t))

\* ------------------------------------------------------ builds in a row
MaxBuilds == 2       \* builds run one after the other

\* build_slug_database without the rebuild of the full-text index (line 114)
build_slug_databaseNoRebuild(fs, src) ==
    LET l == LoadAll(CreateTables(NoFile), src, NewBuild)
    IN  [files |-> Append(fs, l.db), total_loaded |-> l.b.total_loaded]

\* build_slug_database(links_dir, db_path) from its first line to its return,
\* nothing raising: the old file is removed and a new one built at the path
build_slug_database(fs, src) ==
    LET l == LoadAll(CreateTables(NoFile), src, NewBuild)
    IN  [files |-> Append(fs, FtsRebuild(l.db)), total_loaded |-> l.b.total_loaded]

\* source roots a destination may have been built from before
PriorCorpora ==
    {<<Partition(<< <<"_">> >>, FALSE, <<>>)>>,
     <<Partition(<< <<"a">>, <<"_", "a">> >>, TRUE, << <<"a">> >>)>>}

\* what the destination may hold before the first build: an empty file, empty
\* tables, a store built from another source root, the same with its
\* full-text index never filled
PriorStores ==
    {NoFile, CreateTables(NoFile)}
        \cup {build_slug_database(<<>>, c).files[1] : c \in PriorCorpora}
        \cup {[build_slug_database(<<>>, c).files[1] EXCEPT !.ftsdocs = <<>>] :
                  c \in PriorCorpora}

InitBuild ==
    InitProcess(SeqCorpora, {<<>>} \cup {<<p>> : p \in PriorStores}, {TRUE})

\* _build_index called on thread 1
BuildInProcess ==
    /\ hist.completed + script.runs < MaxBuilds
    /\ SetWorld(1, _build_index(World(1), links).w)
    /\ hist' = [hist EXCEPT !.started = @ + 1, !.completed = @ + 1, !.pre = AtPath]
    /\ UNCHANGED <<mgr, links, links_exists, _lock, pc, call, ret, bld, script>>

\* a whole run of build_slug_database in another process
BuildByScript ==
    /\ hist.completed + script.runs < MaxBuilds
    /\ LET r == build_slug_database(files, links)
       IN  /\ files' = r.files
           /\ cur' = Len(r.files)
           /\ script' = [NoScript EXCEPT !.pc = "done", !.conn = Len(r.files),
                                         !.runs = script.runs + 1,
                                         !.ret = r.total_loaded, !.pre = AtPath]
    /\ UNCHANGED <<mgr, links, links_exists, _initialized, _lock, _local, pc, call, ret,
                   bld, hist>>

NextBuild == BuildInProcess \/ BuildByScript

\* builds of one source root run one after the other on one destination
SpecBuild == InitBuild /\ [][NextBuild]_vars

\* the threads of a process whose handle may find any store at its path
InitFirst == InitProcess(SpecCorpora, {<<>>} \cup {<<p>> : p \in PriorStores}, BOOLEAN)

SpecFirst == InitFirst /\ [][Next]_vars

\* --------------------------------------------------- builds of dated roots
\* source roots of one or two partitions with a dates.txt of any length up to
\* that of names.txt, identifiers repeating within and across partitions
DateLines == {<<"1">>, <<"2">>}
DatedPartitions ==
    {Partition(n, TRUE, d) :
         n \in SeqNames \ {<<>>}, d \in UNION {[1..k -> DateLines] : k \in 0..MaxNames}}
DatedCorpora ==
    {<<p>> : p \in DatedPartitions}
        \cup {<<p, q>> : p \in DatedPartitions,
                         q \in {r \in DatedPartitions : Len(r.dates) = Len(r.names)}}

InitDated == InitProcess(DatedCorpora, {<<>>, <<CreateTables(NoFile)>>}, {TRUE})

\* builds of either kind, one after the other, of a dated source root
SpecDated == InitDated /\ [][NextBuild]_vars

\* -------------------------------------------- identifier and date lines
\* source roots of one partition whose names.txt has blank lines among its
\* identifiers and whose dates.txt, if any, has up to as many lines
PairedNames ==
    UNION {[1..k -> SeqSlugs \cup {<<>>, <<" ">>}] : k \in 1..MaxNames}
PairedCorpora ==
    {<<Partition(n, FALSE, <<>>)>> : n \in PairedNames}
        \cup {<<Partition(n, TRUE, d)>> :
                  n \in PairedNames, d \in UNION {[1..k -> DateLines] : k \in 0..MaxNames}}

InitPaired == InitProcess(PairedCorpora, {<<>>, <<CreateTables(NoFile)>>}, {TRUE})

\* builds of either kind of a source root with blank identifier lines
SpecPaired == InitPaired /\ [][NextBuild]_vars

\* ------------------------------------------------- partitions of a root
\* the names of the directories of a source root, after "sitemap-"
DirNames == {<<"A">>, <<"a">>, <<"a", "A">>}

\* what a directory may hold: identifiers with dates, without, no names.txt,
\* a names.txt that raises on read
DirKinds ==
    {Partition(<< <<"a">> >>, TRUE, << <<"1">> >>),
     Partition(<< <<"A">>, <<"a">> >>, TRUE, << <<"2">>, <<"2">> >>),
     Partition(<< <<"A">> >>, FALSE, <<>>),
     [Partition(<< <<"a">> >>, TRUE, << <<"2">> >>) EXCEPT !.has_names = FALSE],
     [Partition(<< <<"A">> >>, TRUE, << <<"1">> >>) EXCEPT !.readable = FALSE]}

\* sorted(names): ascending in the order of the code points
RECURSIVE SortNames(_)
SortNames(S) ==
    IF S = {} THEN <<>>
    ELSE LET m == CHOOSE n \in S : \A k \in S \ {n} : StrLess(n, k)
         IN  <<m>> \o SortNames(S \ {m})

\* sorted(links_path.glob("sitemap-*")) over a root given as its directories
\* by name: the directories in the order the build visits them
sorted_glob(root) ==
    [k \in 1..Cardinality(DOMAIN root) |->
        [name |-> SortNames(DOMAIN root)[k]] @@ root[SortNames(DOMAIN root)[k]]]

SortedCorpora == {sorted_glob(root) : root \in UNION {[S -> DirKinds] : S \in SUBSET DirNames}}

InitSorted == InitProcess(SortedCorpora, {<<>>, <<CreateTables(NoFile)>>}, {TRUE})

\* builds of either kind of a source root of named directories
SpecSorted == InitSorted /\ [][NextBuild]_vars

\* ------------------------------------------- the cascade on a larger store
\* slugs that start with the letter a and slugs that only hold it
CascadeSlugs == {<<"a">>, <<"a", "a">>, <<"_", "a">>, <<"_", "a", "a">>}
CascadeQueries == {<<"a">>, <<"a", "_">>, <<"a", "a">>, <<"a", " ", "a">>}
CascadeCorpora == {<<Partition(n, FALSE, <<>>)>> : n \in [1..MaxCascade -> CascadeSlugs]}

InitCascade == InitProcess(CascadeCorpora, {<<>>}, {TRUE})

QCascade ==
    \E q \in CascadeQueries, limit \in 0..MaxCascade, fuzzy \in BOOLEAN :
        CallAlone(1, [op |-> "search", arg |-> q, limit |-> limit, fuzzy |-> fuzzy])

NextCascade == QCascade

\* one thread searching a store of up to MaxCascade slugs it built on first use
SpecCascade == InitCascade /\ [][NextCascade]_vars

\* ------------------------------------------------ the two builds, side by side
\* identifiers with a word separator and in both letter cases
TwinSlugs == {<<"A">>, <<"_", "a">>, <<"a", "_", "A", "a">>}

\* source roots of one partition of identifier lines, a blank one possibly
\* among them, with or without a dates.txt of up to MaxNames lines, and
\* possibly a directory of any kind after it
TwinPartitions ==
    {Partition(n, FALSE, <<>>) :
         n \in UNION {[1..k -> TwinSlugs \cup {<<" ">>}] : k \in 1..MaxNames}}
    \cup {Partition(n, TRUE, d) :
              n \in UNION {[1..k -> TwinSlugs \cup {<<" ">>}] : k \in 1..MaxNames},
              d \in UNION {[1..k -> DateLines] : k \in 0..MaxNames}}
TwinCorpora ==
    {<<p>> : p \in TwinPartitions} \cup {<<p, q>> : p \in TwinPartitions, q \in DirKinds}

\* no store at db_path when the process starts
InitTwin == InitProcess(TwinCorpora, {<<>>}, {TRUE})

\* builds of either kind, one after the other, the first on an absent store
SpecTwin == InitTwin /\ [][NextBuild]_vars

\* ------------------------------------------------ the build entry point
\* main() without the test of links_dir: the build runs on a root that holds
\* no partition
mainUnchecked(fs, c, src, found) ==
    LET r == build_slug_database(fs, IF found THEN src ELSE <<>>)
    IN  [files |-> r.files, cur |-> Len(r.files), called |-> TRUE,
         count |-> r.total_loaded, status |-> IF r.total_loaded = 0 THEN 1 ELSE 0]

\* main() of scripts/build_slug_db.py: sys.exit(1) when links_dir does not
\* exist, the build, sys.exit(1) when it returns 0; status 0 otherwise
main(fs, c, src, found) ==
    IF ~found
    THEN [files |-> fs, cur |-> c, called |-> FALSE, count |-> 0, status |-> 1]
    ELSE LET r == build_slug_database(fs, src)
         IN  [files |-> r.files, cur |-> Len(r.files), called |-> TRUE,
              count |-> r.total_loaded, status |-> IF r.total_loaded = 0 THEN 1 ELSE 0]

\* source roots with and without slugs to load: no partition, a partition
\* without names.txt, an unreadable one, one of blank lines
MainCorpora ==
    SeqCorpora
        \cup {<<>>,
              <<[Partition(<< <<"a">> >>, FALSE, <<>>) EXCEPT !.has_names = FALSE]>>,
              <<[Partition(<< <<"a">> >>, FALSE, <<>>) EXCEPT !.readable = FALSE]>>,
              <<Partition(<< <<" ">>, <<>> >>, FALSE, <<>>)>>}

InitMain == InitProcess(MainCorpora, {<<>>} \cup {<<p>> : p \in PriorStores}, BOOLEAN)

\* the process ends: the files as main() left them, its exit status
MainExit(r) ==
    /\ files' = r.files
    /\ cur' = r.cur
    /\ script' = [NoScript EXCEPT !.pc = IF r.status = 0 THEN "done" ELSE "exit1",
                                  !.conn = IF r.called THEN r.cur ELSE 0,
                                  !.runs = script.runs + 1,
                                  !.ret = r.count, !.pre = AtPath]

\* one invocation of the script, from its first line to the end of the process
RunMain ==
    /\ script.runs < MaxBuilds
    /\ MainExit(main(files, cur, links, links_exists))
    /\ UNCHANGED <<mgr, links, links_exists, _initialized, _lock, _local, pc, call, ret,
                   bld, hist>>

NextMain == RunMain

\* invocations of the build script, one after the other
SpecMain == InitMain /\ [][NextMain]_vars

\* ------------------------------------------------------- the best match
\* thresholds from 0.0 to 1.0, in tenths
MinSimilarities == {0, DefaultMinSimilarity, 10}

QBest ==
    \E q \in Queries, m \in MinSimilarities :
        CallAlone(1, [op |-> "find_best_match", arg |-> q, limit |-> 1, fuzzy |-> TRUE,
                      min_similarity |-> m])

NextBest == QBest

\* one thread asking a store it built on first use for the best match
SpecBest == InitQuery /\ [][NextBest]_vars

\* ------------------------------------------------------- the SDK manager
\* sqlite_slug_index.get_sqlite_slug_index run as one step: the module's
\* handle, constructed when there is none
get_sqlite_slug_index(m) ==
    IF m.module_sqlite_index = 0
    THEN [m EXCEPT !.handles = Append(@, FALSE),
                   !.module_sqlite_index = Len(m.handles) + 1]
    ELSE m

\* line 72: _sqlite_index = get_sqlite_slug_index(), m as that call left it
SetManagerIndex(m) == [m EXCEPT !.manager_sqlite_index = m.module_sqlite_index]

\* sdk_manager.get_sqlite_index run as one step
get_sqlite_index(m) ==
    IF m.manager_sqlite_index = 0 THEN SetManagerIndex(get_sqlite_slug_index(m)) ELSE m

\* line 118: self._sqlite_index = get_sqlite_index(), m as that call left it
SetWrapperIndex(m, k) == [m EXCEPT !.wrappers[k] = m.manager_sqlite_index]

\* _SQLiteClientWrapper.sqlite_index of wrapper k run as one step
sqlite_index(m, k) ==
    IF m.wrappers[k] = 0 THEN SetWrapperIndex(get_sqlite_index(m), k) ELSE m

\* sdk_manager.get_cached_client run as one step
get_cached_client(m) ==
    IF m._cached_client = NoClient /\ m._sdk_available
    THEN IF m.use_sqlite
         THEN [m EXCEPT !.wrappers = Append(@, 0),
                        !._cached_client = Wrapper(Len(m.wrappers) + 1)]
         ELSE [m EXCEPT !._cached_client = SdkClient]
    ELSE m

\* the throwaway query of warm_slug_index, a word no slug of the model holds
WarmQuery == <<"a", "a", "a">>
WarmCalls ==
    <<[op |-> "get_total_count", arg |-> <<>>, limit |-> 0, fuzzy |-> FALSE],
      [op |-> "search", arg |-> WarmQuery, limit |-> 1, fuzzy |-> FALSE]>>

\* a statement of warm_slug_index may raise: the call that obtains the
\* client, the count, the search
WarmFaults == {"none", "client", "count", "search"}

\* the handle of the cached wrapper, its sqlite_index property read
HandleOf(m) == m.wrappers[m._cached_client.id]

\* a method of the handle has returned r after _ensure_initialized returned e;
\* x: the globals, the world of the thread, whether a call has raised, the
\* builds run
HandleReturned(x, m, e, r) ==
    [m |-> [m EXCEPT !.handles[HandleOf(m)] = r.w.init], w |-> r.w,
     failed |-> r.ret.raised, builds |-> x.builds + (IF e.built THEN 1 ELSE 0)]

HandleEnsured(x, m, e, c) == HandleReturned(x, m, e, AfterEnsure(e, c, <<>>))

\* call c on the handle of the cached wrapper, m the globals after the
\* sqlite_index property was read
HandleCall(x, m, c, src, src_exists) ==
    HandleEnsured(x, m,
                  _ensure_initialized([x.w EXCEPT !.init = m.handles[HandleOf(m)]],
                                      src, src_exists),
                  c)

\* One method of the cached client called by a thread: on a wrapper, the
\* method of the handle of the wrapper; on a Client of the SDK, a call that
\* leaves the store alone.  Nothing runs after a call has raised.
ClientCall(x, c, src, src_exists) ==
    IF x.failed \/ x.m._cached_client.kind # "_SQLiteClientWrapper" THEN x
    ELSE HandleCall(x, sqlite_index(x.m, x.m._cached_client.id), c, src, src_exists)

\* a statement raises
Raised(x, fault) == [x EXCEPT !.failed = @ \/ fault]

\* the try block of warm_slug_index, lines 186-192
WarmTry(m, w, src, src_exists, fault) ==
    ClientCall(
        Raised(ClientCall(
                   Raised([m |-> IF fault = "client" THEN m ELSE get_cached_client(m),
                           w |-> w, failed |-> fault = "client", builds |-> 0],
                          fault = "count"),
                   WarmCalls[1], src, src_exists),
               fault = "search"),
        WarmCalls[2], src, src_exists)

\* warm_slug_index ends, x as its try block left things: with the except
\* clause left out a failure is raised
WarmEndsUncaught(x) ==
    [m |-> x.m, w |-> x.w, builds |-> x.builds, raised |-> x.failed, value |-> ~x.failed]

\* the return True of line 192 and the except clause of lines 193-195
WarmEnds(x) ==
    [m |-> x.m, w |-> x.w, builds |-> x.builds, raised |-> FALSE, value |-> ~x.failed]

\* sdk_manager.warm_slug_index
warm_slug_index(m, w, src, src_exists, fault) ==
    IF ~m._sdk_available
    THEN [m |-> m, w |-> w, builds |-> 0, raised |-> FALSE, value |-> FALSE]
    ELSE WarmEnds(WarmTry(m, w, src, src_exists, fault))

\* the call returns to thread t
WarmReturn(t, fault, r) ==
    /\ pc' = [pc EXCEPT ![t] = "done"]
    /\ call' = [call EXCEPT ![t] = [op |-> "warm_slug_index", arg |-> WarmQuery,
                                    limit |-> 1, fuzzy |-> FALSE, fault |-> fault]]
    /\ ret' = [ret EXCEPT ![t] = [NoRet EXCEPT !.raised = r.raised, !.value = r.value,
                                               !.built = r.builds > 0]]
    /\ files' = r.w.files
    /\ cur' = r.w.cur
    /\ _local' = [_local EXCEPT ![t] = r.w.conn]
    /\ mgr' = [r.m EXCEPT !.warmed = @ \/ r.value]
    /\ hist' = [hist EXCEPT !.started = @ + r.builds, !.completed = @ + r.builds]
    /\ UNCHANGED <<links, links_exists, _initialized, _lock, bld, script>>

\* warm_slug_index called by thread t, from its first line to its return
Warm(t, fault) ==
    /\ pc[t] = "idle"
    /\ WarmReturn(t, fault,
                  warm_slug_index(mgr, [files |-> files, cur |-> cur, init |-> FALSE,
                                        conn |-> _local[t]],
                                  links, links_exists, fault))

InitWarm ==
    /\ InitHandle(SpecCorpora, {<<>>} \cup {<<p>> : p \in PriorStores}, BOOLEAN)
    /\ mgr \in {Manager(a, s) : a \in BOOLEAN, s \in BOOLEAN}

NextWarm ==
    \/ \E t \in Threads, fault \in WarmFaults : Warm(t, fault)
    \/ \E t \in Threads : ReturnToCaller(t)

\* the threads of a process warming the index, one call at a time
SpecWarm == InitWarm /\ [][NextWarm]_vars

\* ------------------------------------------ the accessors, step by step
Entries == {"get_cached_client", "get_sqlite_index", "get_sqlite_slug_index"}

\* thread t moves to position p, its locals and the globals becoming m
Step(t, p, m) ==
    /\ pc' = [pc EXCEPT ![t] = p]
    /\ mgr' = m
    /\ UNCHANGED <<links, links_exists, files, cur, _initialized, _lock, _local,
                   call, ret, bld, script, hist>>

\* a thread that holds no handle yet asks for one
Enter(t, entry) ==
    /\ pc[t] = "idle"
    /\ mgr.got[t] = 0
    /\ Step(t, CASE entry = "get_cached_client" -> "cached_test"
                 [] entry = "get_sqlite_index" -> "manager_test"
                 [] entry = "get_sqlite_slug_index" -> "module_test",
            [mgr EXCEPT !.frame[t].entry = entry])

\* get_cached_client, line 84: if _cached_client is None and _sdk_available
CachedTest(t) ==
    /\ pc[t] = "cached_test"
    /\ Step(t, IF mgr._cached_client = NoClient /\ mgr._sdk_available
               THEN "cached_make" ELSE "cached_return", mgr)

\* line 90: _cached_client = _SQLiteClientWrapper()
CachedMake(t) ==
    /\ pc[t] = "cached_make"
    /\ Step(t, "cached_return",
            [mgr EXCEPT !.wrappers = Append(@, 0),
                        !._cached_client = Wrapper(Len(mgr.wrappers) + 1)])

\* line 105: return _cached_client; the caller reads its sqlite_index
CachedReturn(t) ==
    /\ pc[t] = "cached_return"
    /\ Step(t, "wrapper_test", [mgr EXCEPT !.frame[t].wrapper = mgr._cached_client.id])

\* _SQLiteClientWrapper.sqlite_index, line 117: if self._sqlite_index is None
WrapperTest(t) ==
    /\ pc[t] = "wrapper_test"
    /\ Step(t, IF mgr.wrappers[mgr.frame[t].wrapper] = 0
               THEN "manager_test" ELSE "wrapper_return", mgr)

\* get_sqlite_index, line 70: if _sqlite_index is None
ManagerTest(t) ==
    /\ pc[t] = "manager_test"
    /\ Step(t, IF mgr.manager_sqlite_index = 0 THEN "module_test" ELSE "manager_return",
            mgr)

\* get_sqlite_slug_index, line 332: if _sqlite_index is None
ModuleTest(t) ==
    /\ pc[t] = "module_test"
    /\ Step(t, IF mgr.module_sqlite_index = 0 THEN "module_make" ELSE "module_return",
            mgr)

\* lines 333-345: _sqlite_index = SQLiteSlugIndex(db_path=..., links_dir=...)
ModuleMake(t) ==
    /\ pc[t] = "module_make"
    /\ Step(t, "module_return",
            [mgr EXCEPT !.handles = Append(@, FALSE),
                        !.module_sqlite_index = Len(mgr.handles) + 1])

\* line 347: return _sqlite_index
ModuleReturn(t) ==
    /\ pc[t] = "module_return"
    /\ Step(t, IF mgr.frame[t].entry = "get_sqlite_slug_index" THEN "got" ELSE "manager_set",
            [mgr EXCEPT !.frame[t].value = mgr.module_sqlite_index])

\* get_sqlite_index, line 72: _sqlite_index = get_sqlite_slug_index()
ManagerSet(t) ==
    /\ pc[t] = "manager_set"
    /\ Step(t, "manager_return", [mgr EXCEPT !.manager_sqlite_index = mgr.frame[t].value])

\* line 73: return _sqlite_index
ManagerReturn(t) ==
    /\ pc[t] = "manager_return"
    /\ Step(t, IF mgr.frame[t].entry = "get_sqlite_index" THEN "got" ELSE "wrapper_set",
            [mgr EXCEPT !.frame[t].value = mgr.manager_sqlite_index])

\* sqlite_index, line 118: self._sqlite_index = get_sqlite_index()
WrapperSet(t) ==
    /\ pc[t] = "wrapper_set"
    /\ Step(t, "wrapper_return",
            [mgr EXCEPT !.wrappers[mgr.frame[t].wrapper] = mgr.frame[t].value])

\* line 119: return self._sqlite_index
WrapperReturn(t) ==
    /\ pc[t] = "wrapper_return"
    /\ Step(t, "got",
            [mgr EXCEPT !.frame[t].value = mgr.wrappers[mgr.frame[t].wrapper]])

\* the caller holds the handle it was handed
Handed(t) ==
    /\ pc[t] = "got"
    /\ Step(t, "idle", [mgr EXCEPT !.got[t] = mgr.frame[t].value, !.frame[t] = NoFrame])

\* a method of the handle thread t holds has returned r after
\* _ensure_initialized returned e
UseReturned(t, e, r) ==
    /\ pc' = [pc EXCEPT ![t] = "done"]
    /\ files' = r.w.files
    /\ cur' = r.w.cur
    /\ _local' = [_local EXCEPT ![t] = r.w.conn]
    /\ mgr' = [mgr EXCEPT !.handles[mgr.got[t]] = r.w.init]
    /\ ret' = [ret EXCEPT ![t] = r.ret @@ NoRet]
    /\ hist' = [hist EXCEPT !.started = @ + (IF e.built THEN 1 ELSE 0),
                            !.completed = @ + (IF e.built THEN 1 ELSE 0)]
    /\ UNCHANGED <<links, links_exists, _initialized, _lock, bld, script>>

UseEnsured(t, c, e) ==
    /\ call' = [call EXCEPT ![t] = c]
    /\ UseReturned(t, e, AfterEnsure(e, c, <<>>))

\* one whole call by thread t on the handle it holds, no other thread running
Use(t, c) ==
    /\ pc[t] = "idle"
    /\ mgr.got[t] # 0
    /\ UseEnsured(t, c, _ensure_initialized([files |-> files, cur |-> cur,
                                             init |-> mgr.handles[mgr.got[t]],
                                             conn |-> _local[t]],
                                            links, links_exists))

InitAccess == InitProcess(SpecCorpora, SeqStores, {TRUE})

NextAccess ==
    \/ \E t \in Threads, entry \in Entries : Enter(t, entry)
    \/ \E t \in Threads : CachedTest(t)
    \/ \E t \in Threads : CachedMake(t)
    \/ \E t \in Threads : CachedReturn(t)
    \/ \E t \in Threads : WrapperTest(t)
    \/ \E t \in Threads : ManagerTest(t)
    \/ \E t \in Threads : ModuleTest(t)
    \/ \E t \in Threads : ModuleMake(t)
    \/ \E t \in Threads : ModuleReturn(t)
    \/ \E t \in Threads : ManagerSet(t)
    \/ \E t \in Threads : ManagerReturn(t)
    \/ \E t \in Threads : WrapperSet(t)
    \/ \E t \in Threads : WrapperReturn(t)
    \/ \E t \in Threads : Handed(t)
    \/ \E t \in Threads : Use(t, WarmCalls[1])
    \/ \E t \in Threads : ReturnToCaller(t)

\* the threads of a process obtaining the handle through the accessors, the
\* statements of the accessors interleaved, and calling it
SpecAccess == InitAccess /\ [][NextAccess]_vars

\* ------------------------------------------- threads and their connections
ConnCalls ==
    {[op |-> "get_total_count", arg |-> <<>>, limit |-> 0, fuzzy |-> FALSE],
     [op |-> "search", arg |-> <<"a">>, limit |-> 1, fuzzy |-> TRUE]}

InitConn == InitProcess(SpecCorpora, SeqStores, BOOLEAN)

ConnCall == \E t \in Threads, c \in ConnCalls : CallAlone(t, c)

ConnReturn == \E t \in Threads : ReturnToCaller(t)

NextConn == ConnCall \/ ConnReturn \/ BuildByScript

\* the threads of a process calling the handle in turn while the build
\* script replaces the store
SpecConn == InitConn /\ [][NextConn]_vars

\* --------------------------------------------- handles on different paths
\* Two SQLiteSlugIndex objects of one process, each with a db_path of its own
\* and the same links_dir.  In this specification cur and _initialized are
\* kept per handle: cur[h] is the file at the db_path of handle h.
Handles == 1..2

\* a store with one record
OneRecord == FtsRebuild(_insert_batch(CreateTables(NoFile), <<Entry(<<"a">>, None)>>))

\* what the two paths hold at the start: nothing, or a store at one or both
PathStarts ==
    {[files |-> <<>>, cur |-> <<0, 0>>],
     [files |-> <<OneRecord>>, cur |-> <<1, 0>>],
     [files |-> <<OneRecord, CreateTables(NoFile)>>, cur |-> <<1, 2>>],
     [files |-> <<OneRecord, OneRecord>>, cur |-> <<1, 2>>]}

PathCalls ==
    {[op |-> "get_total_count", arg |-> <<>>, limit |-> 0, fuzzy |-> FALSE],
     [op |-> "exists", arg |-> <<"a">>, limit |-> 0, fuzzy |-> FALSE]}

InitPaths ==
    /\ links \in SpecCorpora
    /\ links_exists \in BOOLEAN
    /\ \E s \in PathStarts : files = s.files /\ cur = s.cur
    /\ _initialized = [h \in Handles |-> FALSE]
    /\ _lock = 0
    /\ _local = [t \in Threads |-> 0]
    /\ pc = [t \in Threads |-> "idle"]
    /\ call = [t \in Threads |-> NoCall]
    /\ ret = [t \in Threads |-> NoRet]
    /\ bld = [t \in Threads |-> NewBuild]
    /\ script = NoScript
    /\ hist = NoHist
    /\ mgr = NoMgr

\* the world a method of handle h runs in when thread t calls it: the files,
\* self.db_path, self._initialized, and _local.connection of the thread
WorldOf(t, h) ==
    [files |-> files, cur |-> cur[h], init |-> _initialized[h], conn |-> _local[t]]

\* a method of handle h has returned r to thread t; mgr.got[t] keeps the
\* handle the thread called
PathReturned(t, h, e, r) ==
    /\ pc' = [pc EXCEPT ![t] = "done"]
    /\ files' = r.w.files
    /\ cur' = [cur EXCEPT ![h] = r.w.cur]
    /\ _initialized' = [_initialized EXCEPT ![h] = r.w.init]
    /\ _local' = [_local EXCEPT ![t] = r.w.conn]
    /\ mgr' = [mgr EXCEPT !.got[t] = h]
    /\ ret' = [ret EXCEPT ![t] = r.ret @@ NoRet]
    /\ hist' = [hist EXCEPT !.started = @ + (IF e.built THEN 1 ELSE 0),
                            !.completed = @ + (IF e.built THEN 1 ELSE 0)]
    /\ UNCHANGED <<links, links_exists, _lock, bld, script>>

PathEnsured(t, h, c, e) ==
    /\ call' = [call EXCEPT ![t] = c]
    /\ PathReturned(t, h, e, AfterEnsure(e, c, <<>>))

\* one whole call by thread t on handle h, no other thread running
PathCall(t, h, c) ==
    /\ pc[t] = "idle"
    /\ PathEnsured(t, h, c, _ensure_initialized(WorldOf(t, h), links, links_exists))

PathCalled == \E t \in Threads, h \in Handles, c \in PathCalls : PathCall(t, h, c)

PathReturn == \E t \in Threads : ReturnToCaller(t)

NextPaths == PathCalled \/ PathReturn

\* the threads of a process calling two handles in turn
SpecPaths == InitPaths /\ [][NextPaths]_vars

\* ------------------------------------------------------------------ claims
Done(t, op) == pc[t] = "done" /\ call[t].op = op /\ ~ret[t].raised

NoDuplicates(s) == \A i, j \in DOMAIN s : s[i] = s[j] => i = j

\* the identifiers the source root holds, as the build reads them
Loaded ==
    UNION {{ReadNames(links[p].names)[i] : i \in DOMAIN ReadNames(links[p].names)} :
              p \in {k \in DOMAIN links : links[k].has_names /\ links[k].readable}}

\* the store thread t's connection is open on
DbOf(t) == files[_local[t]]

\* C4: search returns at most limit slugs and no slug twice, for every store,
\* query, fuzzy flag and limit >= 0.
C4_SearchAtMostLimitNoDuplicates ==
    \A t \in Threads :
        Done(t, "search") =>
            /\ Len(ret[t].value) <= call[t].limit
            /\ NoDuplicates(ret[t].value)

\* a search that filled its limit of 2 with the full-text strategy's help,
\* after earlier strategies had returned a slug already seen
C4_Witness ==
    \E t \in Threads :
        /\ Done(t, "search")
        /\ call[t].limit = 2
        /\ Len(ret[t].value) = 2
        /\ 4 \in ret[t].strategies

\* the stored slugs that equal q up to letter case
CaseVariants(rows, q) == {i \in DOMAIN rows : lower(rows[i].slug) = lower(q)}

\* C5 as stated: for every loaded slug s and every letter-case variant q of
\* s, search(q, limit >= 1) has s itself as its first element.
C5_Original ==
    \A t \in Threads :
        Done(t, "search") /\ call[t].limit >= 1 /\ ret[t].ok =>
            \A i \in CaseVariants(DbOf(t).rows, call[t].arg) :
                /\ ret[t].value # <<>>
                /\ ret[t].value[1] = DbOf(t).rows[i].slug

\* C5 amended: the first element of search(q, limit >= 1) is the earliest
\* loaded slug that equals s up to letter case; it is s itself when no other
\* loaded slug differs from s only in letter case.
C5_SearchExactFirstUpToCase ==
    \A t \in Threads :
        Done(t, "search") /\ call[t].limit >= 1 /\ ret[t].ok =>
            LET same == CaseVariants(DbOf(t).rows, call[t].arg)
            IN  same # {} =>
                    /\ ret[t].value # <<>>
                    /\ \E i \in same :
                           /\ \A j \in same : i <= j
                           /\ ret[t].value[1] = DbOf(t).rows[i].slug
                    /\ \A i \in same :
                           same = {i} => ret[t].value[1] = DbOf(t).rows[i].slug

\* a search for a slug in another letter case that put that slug first, ahead
\* of a shorter slug matching by prefix
C5_Witness ==
    \E t \in Threads :
        /\ Done(t, "search")
        /\ call[t].limit = 2
        /\ Len(ret[t].value) = 2
        /\ ret[t].value[1] # call[t].arg
        /\ lower(ret[t].value[1]) = lower(call[t].arg)
        /\ Len(ret[t].value[2]) < Len(ret[t].value[1])

\* C8: after a completed build exists(v) is true exactly when v equals a
\* loaded slug up to letter case.
C8_ExistsCaseInsensitive ==
    \A t \in Threads :
        Done(t, "exists") /\ ret[t].ok /\ hist.completed >= 1 =>
            ret[t].value = (\E s \in Loaded : lower(s) = lower(call[t].arg))

\* exists answered true for a string that is no loaded slug as written
C8_Witness ==
    \E t \in Threads :
        /\ Done(t, "exists")
        /\ hist.completed >= 1
        /\ ret[t].value = TRUE
        /\ call[t].arg \notin Loaded

\* C10: with fuzzy disabled the full-text strategy is not executed, and the
\* fuzzy=false result is a leading segment of the fuzzy=true result on the
\* same store, query and limit.
C10_FuzzyOffIsLeadingSegment ==
    \A t \in Threads :
        Done(t, "search") /\ ret[t].ok =>
            /\ ~call[t].fuzzy => 4 \notin ret[t].strategies
            /\ call[t].fuzzy =>
                   IsPrefix(search(DbOf(t), call[t].arg, call[t].limit, FALSE, <<>>).value,
                            ret[t].value)

\* a fuzzy search that returned more than the same search with fuzzy off
C10_Witness ==
    \E t \in Threads :
        /\ Done(t, "search")
        /\ call[t].fuzzy
        /\ 4 \in ret[t].strategies
        /\ Len(ret[t].value) >
               Len(search(DbOf(t), call[t].arg, call[t].limit, FALSE, <<>>).value)

\* C6 as stated: search with an empty or whitespace-only query returns []
\* without touching storage in every lifecycle state: no connection opened,
\* no initialization check against the store, no build.
C6_Original ==
    \A t \in Threads :
        pc[t] = "done" /\ call[t].op = "search" /\ strip(call[t].arg) = <<>> =>
            /\ ~ret[t].raised /\ ret[t].value = <<>>
            /\ ~ret[t].opened /\ ~ret[t].created
            /\ ~ret[t].checked /\ ~ret[t].built

\* C7 as stated: with neither a store holding records nor a source root, every
\* query returns its default without raising, the handle stays Uninitialized
\* and no file is created; and a call made once a store with records or the
\* source root is there leaves the handle Ready.
C7_Original ==
    \A t \in Threads :
        pc[t] = "done" =>
            /\ ~ret[t].store /\ ~ret[t].source =>
                   /\ ~ret[t].raised /\ ret[t].value = Default(call[t].op)
                   /\ ~_initialized /\ ~ret[t].created
            /\ ret[t].store \/ ret[t].source => _initialized

\* C9 as stated: build_slug_database returns the number of rows of the store
\* it built, for every source corpus, repeated slugs included.
C9_Original ==
    script.pc = "done" => script.ret = Len(files[script.conn].rows)

\* the threads inside _build_index
Building == {t \in Threads : pc[t] \in BuildPcs}

\* C1: on one handle whose store is absent or empty, threads making their
\* first query call concurrently run _build_index exactly once: no two builds
\* overlap, no build starts after one has completed, and when no statement
\* of the build raises, a call that finds the handle Ready finds it so after
\* one build started and that build completed.
C1_BuildExactlyOnce ==
    /\ Cardinality(Building) <= 1
    /\ hist.completed <= 1
    /\ hist.completed = 1 => Building = {}
    /\ hist.faults = 0 =>
           /\ hist.started <= 1
           /\ \A t \in Threads :
                  ret[t].ok => hist.started = 1 /\ hist.completed = 1

\* every thread made its call before the handle was Ready, so each took the
\* lock in turn, and all have returned with one build run
C1_Witness ==
    /\ \A t \in Threads : pc[t] = "done" /\ ret[t].ok /\ ret[t].locked
    /\ hist.faults = 0
    /\ hist.started = 1 /\ hist.completed = 1

\* what a reader of a store sees of it: the records and the full-text index
Records(db) == [rows |-> db.rows, ftsdocs |-> db.ftsdocs]

\* the store a build of the source root produces
Rebuilt == FtsRebuild(LoadAll(CreateTables(NoFile), links, NewBuild).db)

\* C2 as stated: at every point during a build, in process or by the script,
\* a reader of the store at db_path sees the complete record set from before
\* the build or the complete rebuilt one, never a state in between.
C2_Original ==
    \A pre \in PreBuild : Records(AtPath) \in {Records(pre), Records(Rebuilt)}

\* C3 as stated: after a build failed in creating the schema or in the
\* full-text rebuild, no lifecycle check reports Ready until a build has run
\* to completion.
C3_Original == hist.aborted => ~_initialized

\* the query of thread t's call as search normalizes it
NormalizedArg(t) == strip(replace_underscore(lower(call[t].arg)))

\* thread t's search went on to the full-text strategy and the query failed
FtsFailed(t) ==
    /\ pc[t] = "done" /\ call[t].op = "search" /\ call[t].fuzzy /\ ret[t].ok
    /\ Len(search(DbOf(t), call[t].arg, call[t].limit, FALSE, <<>>).value) < call[t].limit
    /\ Strategy4(DbOf(t), NormalizedArg(t), call[t].limit, <<>>).failed

\* C11: when the full-text strategy fails on a malformed query term, search
\* does not raise and returns what the same call with fuzzy disabled returns.
C11_FtsFailureKeepsResults ==
    \A t \in Threads :
        FtsFailed(t) =>
            /\ ~ret[t].raised
            /\ ret[t].value =
                   search(DbOf(t), call[t].arg, call[t].limit, FALSE, <<>>).value

\* a fuzzy search whose full-text query failed after an earlier strategy had
\* found a slug
C11_Witness ==
    \E t \in Threads :
        /\ FtsFailed(t)
        /\ ret[t].value # <<>>
        /\ \E i \in DOMAIN call[t].arg : call[t].arg[i] = "%"

\* the slugs of a store
SlugSet(db) == {db.rows[i].slug : i \in DOMAIN db.rows}

\* C12: whatever the destination held before, after every build, the first
\* and each later one, in process or by the script, the store at the path
\* is the store a build of the source root on an empty destination gives.
C12_BuildIdempotent ==
    hist.completed + script.runs >= 1 => AtPath = Rebuilt

\* an in-process build over a destination holding a slug the source root does
\* not list, followed by a run of the script that started from its result
C12_Witness ==
    /\ hist.completed = 1
    /\ SlugSet(hist.pre) \ Loaded # {}
    /\ script.pc = "done"
    /\ script.pre = Rebuilt
    /\ Rebuilt.rows # <<>>

\* the stored slugs whose lowercased form starts with lowercased p
StartingWith(db, p) == {v \in SlugSet(db) : IsPrefix(lower(p), lower(v))}

\* C13 as stated: for a non-empty prefix p, list_by_prefix(p, limit) returns,
\* slug-ascending, the first limit of exactly the stored slugs whose
\* lowercased form literally starts with lowercased p, '_' and '%' in p
\* included.
C13_Original ==
    \A t \in Threads :
        Done(t, "list_by_prefix") /\ ret[t].ok /\ call[t].arg # <<>> =>
            LET out == ret[t].value
                match == StartingWith(DbOf(t), call[t].arg)
            IN  /\ Len(out) <= call[t].limit
                /\ \A i \in DOMAIN out : out[i] \in match
                /\ \A i, j \in DOMAIN out : i < j => StrLess(out[i], out[j])
                /\ \A v \in match :
                       \/ \E i \in DOMAIN out : out[i] = v
                       \/ /\ Len(out) = call[t].limit
                          /\ \A i \in DOMAIN out : StrLess(out[i], v)

\* thread t is past _ensure_initialized
Ensured(t) == pc[t] \in {"query", "done"}

\* C14: a call that finds a store with records makes the handle Ready
\* without a build; a call that finds none, with the source root there, runs
\* a build to completion before the handle is Ready and before its own
\* query is evaluated, which is then evaluated against the built store.
C14_FirstCallInitializes ==
    \A t \in Threads :
        /\ pc[t] \in BuildPcs => ~_initialized /\ ret[t].value = NoRet.value
        /\ Ensured(t) /\ ret[t].ok => _initialized
        /\ Ensured(t) /\ ret[t].store /\ hist.started = 0 => ret[t].ok /\ ~ret[t].built
        /\ Ensured(t) /\ ret[t].checked /\ ret[t].source /\ ~ret[t].raised => ret[t].ok
        /\ Ensured(t) /\ ret[t].checked /\ ret[t].ok /\ ~ret[t].built =>
               Len(DbOf(t).rows) > 0
        /\ Ensured(t) /\ ret[t].built /\ ~ret[t].raised =>
               /\ hist.completed >= 1
               /\ hist.faults = 0 => DbOf(t) = Rebuilt
        /\ pc[t] = "done" /\ ret[t].built /\ ~ret[t].raised /\ hist.faults = 0 =>
               \E rank \in Orders(FtsMatches(Rebuilt, NormalizedArg(t))) :
                   ret[t].value = Query(Rebuilt, call[t], rank).value

\* a search that found no records in the store, built it and answered from
\* what it had built
C14_Witness ==
    \E t \in Threads :
        /\ pc[t] = "done" /\ call[t].op = "search"
        /\ ~ret[t].store /\ ret[t].source
        /\ ret[t].built /\ ~ret[t].raised /\ hist.faults = 0
        /\ ret[t].value # <<>>

\* C15: a thread opens at most one connection, in a call of its own, and
\* uses it for all its later operations; no step of another thread replaces
\* it, and a thread's step reaches the files through its own connection only.
C15_OneConnectionPerThread ==
    [][\A t \in Threads :
           /\ _local[t] # 0 => _local'[t] = _local[t]
           /\ pc'[t] = pc[t] => _local'[t] = _local[t]
           /\ pc'[t] # pc[t] =>
                  \A i \in DOMAIN files : files'[i] # files[i] => i = _local'[t]
           /\ pc[t] = "idle" /\ pc'[t] = "done" /\ _local[t] # 0 => ~ret'[t].opened]_vars

\* two threads hold connections, on different files, and the first has
\* finished a later call over the connection it opened before the store was
\* replaced
C15_Witness ==
    /\ _local[1] # 0 /\ _local[2] # 0 /\ _local[1] # _local[2]
    /\ pc[1] = "done" /\ ~ret[1].opened /\ ret[1].checked

\* the entries of the source root in the order the build extracts them
RECURSIVE Extracted(_)
Extracted(src) ==
    IF src = <<>> THEN <<>>
    ELSE (IF Head(src).has_names /\ Head(src).readable
          THEN [i \in 1..Len(ReadNames(Head(src).names)) |-> EntryAt(Head(src), i)]
          ELSE <<>>) \o Extracted(Tail(src))

FirstOccurrence(ex, slug) ==
    ex[CHOOSE i \in DOMAIN ex :
           ex[i].slug = slug /\ \A j \in DOMAIN ex : ex[j].slug = slug => i <= j]

\* C16: after a build every slug of the source root is in exactly one row of
\* the store, and that row carries the lastmod of the slug's first occurrence
\* in extraction order.
C16_FirstOccurrenceKept ==
    hist.completed + script.runs >= 1 =>
        LET ex == Extracted(links)
            rows == AtPath.rows
        IN  /\ \A i, j \in DOMAIN rows : rows[i].slug = rows[j].slug => i = j
            /\ {rows[i].slug : i \in DOMAIN rows} = {ex[i].slug : i \in DOMAIN ex}
            /\ \A i \in DOMAIN rows : rows[i].lastmod = FirstOccurrence(ex, rows[i].slug).lastmod

\* a build of a root that lists a slug in both partitions, with different
\* dates, and once more without a date
C16_Witness ==
    /\ hist.completed + script.runs >= 1
    /\ Len(links) = 2
    /\ \E i \in DOMAIN links[1].names, j \in DOMAIN links[2].names :
           /\ links[1].names[i] = links[2].names[j]
           /\ EntryAt(links[1], i).lastmod # EntryAt(links[2], j).lastmod
           /\ \A k \in 1..(i - 1) : links[1].names[k] # links[1].names[i]
           /\ \E r \in DOMAIN AtPath.rows :
                  /\ AtPath.rows[r].slug = links[1].names[i]
                  /\ AtPath.rows[r].lastmod = EntryAt(links[1], i).lastmod

\* C17: an invocation of the script on a source root that does not exist ends
\* with a failure status without the build being called, the destination as
\* it was; an invocation on a root from which no slug is loaded ends with a
\* failure status.
C17_MainFailsWithoutSource ==
    script.runs >= 1 =>
        /\ ~links_exists =>
               script.pc = "exit1" /\ script.conn = 0 /\ AtPath = script.pre
        /\ links_exists /\ Extracted(links) = <<>> => script.pc = "exit1"

\* an invocation on a missing root with a store holding records at the
\* destination
C17_Witness ==
    /\ script.runs >= 1
    /\ ~links_exists
    /\ script.pc = "exit1"
    /\ Len(script.pre.rows) > 0

\* C18: find_best_match(query, min_similarity) returns the first element of
\* search(query, limit=1, fuzzy=True) on the same store, None when that list
\* is empty, whatever min_similarity is.
C18_BestMatchIsFirstOfSearch ==
    \A t \in Threads :
        Done(t, "find_best_match") /\ ret[t].ok =>
            \E rank \in Ranks(World(t), call[t]) :
                LET s == search(DbOf(t), call[t].arg, 1, TRUE, rank)
                IN  /\ ~s.raised
                    /\ ret[t].value = IF s.value = <<>> THEN None ELSE Some(s.value[1])

\* a call with min_similarity 1.0 that returned a slug differing from the
\* query by more than case
C18_Witness ==
    \E t \in Threads :
        /\ Done(t, "find_best_match")
        /\ call[t].min_similarity = 10
        /\ ret[t].value # None
        /\ lower(ret[t].value[1]) # lower(strip(call[t].arg))

\* C19: warm_slug_index never raises; it returns False when a statement of
\* its try block raised and when the SDK is unavailable; a call made after a
\* call that returned True leaves the cached client, the wrappers, the
\* handles with their flags and the files as they were.
C19_WarmNeverRaisesAndRepeats ==
    [][\A t \in Threads :
           pc[t] = "idle" /\ pc'[t] = "done" /\ call'[t].op = "warm_slug_index" =>
               /\ ~ret'[t].raised
               /\ ~mgr._sdk_available => ret'[t].value = FALSE
               /\ call'[t].fault # "none" => ret'[t].value = FALSE
               /\ mgr.warmed =>
                      /\ mgr'._cached_client = mgr._cached_client
                      /\ mgr'.wrappers = mgr.wrappers
                      /\ mgr'.manager_sqlite_index = mgr.manager_sqlite_index
                      /\ mgr'.module_sqlite_index = mgr.module_sqlite_index
                      /\ mgr'.handles = mgr.handles
                      /\ files' = files /\ cur' = cur]_vars

\* both threads have warmed the index with success, the first call having
\* built the store
C19_Witness ==
    /\ \A t \in Threads :
           pc[t] = "done" /\ call[t].op = "warm_slug_index" /\ ret[t].value = TRUE
    /\ hist.completed = 1
    /\ \E t \in Threads : ~ret[t].built

\* C20 as stated: the accessors hand the same SQLiteSlugIndex object to every
\* caller, also to threads that race the first access: one handle is ever
\* constructed, and the process never runs two builds.
C20_Original ==
    /\ \A t, u \in Threads :
           mgr.got[t] # 0 /\ mgr.got[u] # 0 => mgr.got[t] = mgr.got[u]
    /\ Len(mgr.handles) <= 1
    /\ hist.started <= 1

\* C21 as stated: a batch insert that fails during a build is fatal to the
\* build: the build in which an insert raised does not go on and is not
\* reported as successful, whether the insert was one of the partition loop
\* or the one of the remaining batch.
C21_Original ==
    hist.started = 1 /\ hist.faults >= 1 /\ ~hist.aborted => hist.completed = 0

\* the lastmod line i of a partition's names.txt is paired with: line i of
\* dates.txt when there is one
PairedByLine(part, i) ==
    IF part.has_dates /\ i <= Len(part.dates) THEN Some(strip(part.dates[i])) ELSE None

\* C22 as stated: the entry read from line i of names.txt has the content of
\* line i of dates.txt as its lastmod, none when dates.txt has no such line;
\* blank identifier lines give no entry and leave the pairing of the other
\* lines as it is.
C22_Original ==
    hist.completed + script.runs >= 1 =>
        \A p \in DOMAIN links : \A i \in DOMAIN links[p].names :
            LET slug == strip(links[p].names[i])
            IN  /\ slug # <<>>
                /\ \A q \in DOMAIN links : \A j \in DOMAIN links[q].names :
                       strip(links[q].names[j]) = slug => q = p /\ j = i
                => \E r \in DOMAIN AtPath.rows :
                       /\ AtPath.rows[r].slug = slug
                       /\ AtPath.rows[r].lastmod = PairedByLine(links[p], i)

\* a partition the build reads: its names.txt is there and does not raise
GoodPartition(part) == part.has_names /\ part.readable

\* the partitions that list a slug, and of a set of partitions the one whose
\* directory name is least
Holders(slug) ==
    {p \in DOMAIN links :
        GoodPartition(links[p]) /\ \E i \in DOMAIN links[p].names : links[p].names[i] = slug}

LeastNamed(S) == CHOOSE p \in S : \A q \in S \ {p} : StrLess(links[p].name, links[q].name)

\* C23: the partitions are visited in ascending order of their names, so that
\* a slug has the lastmod of the least-named readable partition listing it; a
\* partition without names.txt or whose names.txt raises on read gives no
\* entry, and the store is the one the other partitions alone give.
C23_BadPartitionsSkipped ==
    hist.completed + script.runs >= 1 =>
        /\ SlugSet(AtPath) = {s \in SeqSlugs : Holders(s) # {}}
        /\ \A r \in DOMAIN AtPath.rows :
               LET part == links[LeastNamed(Holders(AtPath.rows[r].slug))]
               IN  \E i \in DOMAIN part.names :
                       /\ part.names[i] = AtPath.rows[r].slug
                       /\ AtPath.rows[r].lastmod = PairedByLine(part, i)
        /\ AtPath = FtsRebuild(LoadAll(CreateTables(NoFile),
                                       SelectSeq(links, GoodPartition), NewBuild).db)

\* a build of a root whose second directory has a names.txt that raises on
\* read, the first and the third each giving a row
C23_Witness ==
    /\ hist.completed + script.runs >= 1
    /\ Len(links) = 3
    /\ ~links[2].readable
    /\ Len(AtPath.rows) = 2
    /\ Holders(AtPath.rows[1].slug) = {1}
    /\ Holders(AtPath.rows[2].slug) = {3}

\* a string holds another
Contains(q, s) == \E k \in 0..(Len(s) - Len(q)) : SubSeq(s, k + 1, k + Len(q)) = q

\* the group of the k-th slug of a result, by the query it was returned for:
\* 1 the exact match at the head, 2 normalized form starts with the normalized
\* query, 3 normalized form only contains it, 4 neither
GroupOf(v, k, query_lower, query_normalized) ==
    IF k = 1 /\ lower(v[k]) = query_lower THEN 1
    ELSE IF IsPrefix(query_normalized, replace_underscore(lower(v[k]))) THEN 2
    ELSE IF Contains(query_normalized, replace_underscore(lower(v[k]))) THEN 3
    ELSE 4

\* what strategies 1 to k - 1 have accumulated when strategy k is due
AccumulatedBefore(k, db, query_lower, query_normalized, limit) ==
    LET r1 == AddNew(<<>>, Strategy1(db.rows, query_lower))
        r2 == AddNew(r1, Strategy2(db.rows, query_normalized, limit - Len(r1)))
        r3 == AddNew(r2, Strategy3(db.rows, query_normalized, limit - Len(r2)))
    IN  CASE k = 2 -> r1 [] k = 3 -> r2 [] k = 4 -> r3

OrderedByStrategy(v, query_lower, query_normalized) ==
    /\ (\E k \in DOMAIN v : lower(v[k]) = query_lower) => lower(v[1]) = query_lower
    /\ \A i, j \in DOMAIN v :
           i < j =>
               /\ GroupOf(v, i, query_lower, query_normalized)
                      <= GroupOf(v, j, query_lower, query_normalized)
               /\ GroupOf(v, i, query_lower, query_normalized)
                      = GroupOf(v, j, query_lower, query_normalized)
                  /\ GroupOf(v, i, query_lower, query_normalized) \in {2, 3}
                  => Len(v[i]) <= Len(v[j])

\* C24 as stated: the list search returns has the exact match first, then the
\* slugs whose normalized form starts with the normalized query by ascending
\* length, then those whose normalized form only contains it by ascending
\* length, then those only the full-text strategy finds; and no strategy is
\* run once limit results are accumulated.
C24_Original ==
    \A t \in Threads :
        Done(t, "search") /\ ret[t].ok =>
            /\ OrderedByStrategy(ret[t].value, strip(lower(call[t].arg)), NormalizedArg(t))
            /\ \A k \in ret[t].strategies \ {1} :
                   Len(AccumulatedBefore(k, DbOf(t), strip(lower(call[t].arg)),
                                         NormalizedArg(t), call[t].limit)) < call[t].limit

\* thread u's call waited for the lock and found the flag set when it had it
BlockedThenReady(u) ==
    pc[u] = "done" /\ ret[u].locked /\ ~ret[u].checked /\ ~ret[u].built /\ ret[u].ok

\* C25: while a thread is inside the build, the flag is unset and the lock is
\* the builder's; no other thread of the handle is past the initialization
\* check with the handle Ready or has an answer from the store: each is
\* outside a call, waiting for the lock, or returning the default of a call
\* that found no source root.  A call that waited and then found the handle Ready, a build
\* having completed, is answered over the store as that build left it, which
\* is the rebuilt store when no statement of the build raised.
C25_CallersWaitForBuild ==
    /\ \A t \in Building :
           /\ ~_initialized
           /\ _lock = t
           /\ \A u \in Threads \ {t} :
                  /\ pc[u] \in {"idle", "wait", "query", "done"}
                  /\ pc[u] \in {"query", "done"} => ~ret[u].ok
    /\ \A u \in Threads :
           BlockedThenReady(u) /\ hist.completed = 1 =>
               /\ _initialized
               /\ Building = {}
               /\ ~ret[u].raised
               /\ DbOf(u) = AtPath
               /\ AtPath = FtsRebuild(AtPath)
               /\ hist.faults = 0 => AtPath = Rebuilt
               /\ ret[u].value \in
                      {Query(AtPath, call[u], rank).value : rank \in Ranks(World(u), call[u])}

\* a search that waited for the lock while the other thread built, and was
\* answered from the rebuilt store
C25_Witness ==
    \E t, u \in Threads :
        /\ t # u
        /\ ret[t].built /\ pc[t] = "done" /\ ~ret[t].raised
        /\ BlockedThenReady(u)
        /\ call[u].op = "search"
        /\ ret[u].value # <<>>
        /\ hist.faults = 0

\* C26 as stated: the connection an operation of a handle obtains is open on
\* the handle's own db_path, in every thread and after any sequence of
\* operations, a thread's earlier use of a handle with another db_path
\* included.
C26_Original ==
    \A t \in Threads :
        pc[t] = "done" /\ _local[t] # 0 => _local[t] = cur[mgr.got[t]]

\* the rows of a store that strategy 1, 2 or 3 selects for a query
CascadeMatches(db, query_lower, query_normalized) ==
    {i \in DOMAIN db.rows :
        \/ db.rows[i].slug_lower = query_lower
        \/ Like(query_normalized \o <<"%">>, db.rows[i].normalized)
        \/ Like(<<"%">> \o query_normalized \o <<"%">>, db.rows[i].normalized)}

\* C27 as stated: with fuzzy disabled, a search that returns fewer than limit
\* slugs returns every stored slug the exact, prefix or contains strategy
\* matches: a hit dropped as a duplicate does not use up a strategy's share
\* of the limit.
C27_Original ==
    \A t \in Threads :
        /\ Done(t, "search") /\ ret[t].ok /\ ~call[t].fuzzy
        /\ strip(call[t].arg) # <<>>
        /\ Len(ret[t].value) < call[t].limit
        => \A i \in CascadeMatches(DbOf(t), strip(lower(call[t].arg)), NormalizedArg(t)) :
               \E k \in DOMAIN ret[t].value : ret[t].value[k] = DbOf(t).rows[i].slug

\* C28 as stated: at the step that makes the handle Ready the store at
\* db_path holds at least one record; a build that loads no slug leaves the
\* handle Uninitialized.
C28_Original ==
    [][~_initialized /\ _initialized' => cur' # 0 /\ Len(files'[cur'].rows) > 0]_vars

\* the statements inside `with self._lock`
InsideLock == {"locked"} \cup BuildPcs

\* C29: the lock is held by a thread exactly while the thread is inside the
\* with block of the initialization check, so every way out of the check, a
\* raising build and a missing store and source root included, leaves it
\* released; and every call that has begun returns or raises in the end, a
\* thread waiting for the lock included.
C29_ChecksTerminateLockReleased ==
    /\ [](\A t \in Threads : _lock = t <=> pc[t] \in InsideLock)
    /\ [](_lock = 0 \/ _lock \in Threads)
    /\ \A t \in Threads : (pc[t] # "idle") ~> (pc[t] = "done")

\* the build of one thread raised and the other thread, which took the lock
\* after it, has its answer
C29_Witness ==
    \E t, u \in Threads :
        /\ t # u
        /\ pc[t] = "done" /\ ret[t].raised /\ ret[t].built
        /\ pc[u] = "done" /\ ret[u].locked /\ ~ret[u].raised
        /\ _lock = 0

\* C30: once the flag of the handle is set no step unsets it and no step
\* starts a build, the build script removing and replacing the store file
\* included; a step that runs a build starts with the flag unset and sets it.
C30_ReadyAbsorbing ==
    [][/\ _initialized => _initialized'
       /\ _initialized => hist'.started = hist.started
       /\ hist'.started # hist.started => ~_initialized /\ _initialized']_vars

\* a call on the Ready handle made when the build script had removed the
\* store file: answered without a look at the store and without a build,
\* the one build of the handle behind it
C30_Witness ==
    /\ _initialized
    /\ hist.started = 1
    /\ script.runs >= 1
    /\ pc[1] = "done" /\ call[1].op = "get_total_count"
    /\ ret[1].ok /\ ~ret[1].store /\ ~ret[1].checked /\ ~ret[1].built

\* the calls put to both stores
TwinCalls ==
    {[op |-> "search", arg |-> q, limit |-> n, fuzzy |-> f] :
         q \in {<<"a">>, <<"_">>, <<"a", "a", " ", "a">>}, n \in 1..2, f \in BOOLEAN}
    \cup {[op |-> o, arg |-> v, limit |-> 2, fuzzy |-> FALSE] :
              o \in {"exists", "find_best_match", "list_by_prefix", "get_slug_date"},
              v \in {<<"a">>, <<"_", "A">>, <<"a", "_", "A", "a">>}}
    \cup {[op |-> "get_total_count", arg |-> <<>>, limit |-> 0, fuzzy |-> FALSE]}

\* the answers a store may give to a call, one for each order the full-text
\* index may rank its matches in
TwinAnswers(db, c) ==
    {Query(db, c, rank) :
         rank \in Orders(FtsMatches(db, strip(replace_underscore(lower(c.arg)))))}

\* the (slug, slug_lower, normalized, lastmod) rows of a store
RowSet(db) == {db.rows[i] : i \in DOMAIN db.rows}

\* the process built its store where there was none, and the script then
\* built one of its own from the same source root: files[1] is the store of
\* _build_index, files[2] the one of build_slug_database
BothBuilt ==
    /\ hist.completed = 1 /\ hist.pre = NoFile
    /\ script.runs = 1 /\ script.pc = "done"
    /\ Len(files) = 2

C32_Original ==
    \A t \in Threads :
        Done(t, "search") /\ NormalizedArg(t) = <<>> => ret[t].value = <<>>

====
